---- MODULE Spec2Model ----
(***************************************************************************)
(* A model of LineUp.js: the numeric composite column                      *)
(* (CompositeNumberColumn), the header renderer (HeaderRenderer.ts) and    *)
(* the LineUp facade (lineup.ts).                                          *)
(*                                                                         *)
(* The program is a set of objects that do not share state, so the model   *)
(* is a set of state machines over disjoint groups of variables; each      *)
(* specification runs one machine and keeps the variables of the others    *)
(* at their initial value:                                                 *)
(*   Spec          CompositeNumberColumn: construct, restore, dump,        *)
(*                 getValue, compare                                       *)
(*   SpecLoaded    two columns of one descriptor and their loaded flags    *)
(*   SpecTree      the column tree shown by the header: countMultiLevel    *)
(*   SpecFlatten   the same tree: flatten, the layout of the columns       *)
(*   SpecDrop      the same tree: the drop handlers of the header          *)
(*   SpecDropUnknown  the drop handlers when data.find returns null       *)
(*   SpecHist      HeaderRenderer: histCache, updateHist, update           *)
(*   SpecLineUp    LineUp: update(), the body renderer's renderFinished,   *)
(*                 changeDataStorage and the provider's selection events   *)
(*   SpecOptions   LineUp: the rendering options                           *)
(*   SpecRanking   Ranking: filters, sort criterion, getOrder              *)
(*   SpecSortBy    LineUp.sortBy on the ranking of the provider            *)
(*   SpecClick     the click listeners of a column header                  *)
(*   SpecJump      LineUp.jumpToNearest on the order of the first ranking  *)
(*   SpecDesc      deriveColors on an array of column descriptors          *)
(*   SpecProv      the Hide button and the rankings of the provider        *)
(*   SpecLayout    HeaderRenderer.update(): the rankings side by side      *)
(***************************************************************************)
EXTENDS Integers, Sequences, FiniteSets, TLC

VARIABLES
  col,        \* the CompositeNumberColumn under test
  last,       \* the most recent operation on col and what it returned
  twin,       \* a second column created from the descriptor of col
  ranking,    \* the ids of the top-level columns of the ranking, left to right
  children,   \* the ids of the children of each multi-level column, in order
  collapsed,  \* getCollapsed() of each multi-level column
  compressed, \* getCompressed() of each column
  levels,     \* the number of header levels of the last update(), 0 before it
  width,      \* getWidth() of each column
  layout,     \* what the last flatten of the ranking gave, none after a mutation
  pool,       \* the column ids no column has been created with yet
  dropped,    \* the last drop on the header and what its handler returned
  histograms, \* options.histograms of the header renderer
  hOrder,     \* the version of the order of each ranking (getOrder())
  hStatus,    \* each number column: "shown", "hidden" or "removed"
  histCache,  \* HeaderRenderer.histCache: column id -> promise of statistics
  hPromises,  \* the promises handed out by the provider: "pending" or "resolved"
  hThen,      \* the promises with a render callback: "pending" or "done"
  displayed,  \* column id -> the order version of the histogram in its header
  hLast,      \* the event the header renderer handled last
  data,               \* LineUp.data: the current data provider
  listeners,          \* per provider, the event names with a ".main" listener
  selectionFired,     \* the last selection change and the events LineUp fired
  isUpdateInitialized,\* LineUp.isUpdateInitialized
  renderListener,     \* the "renderFinished.main" listener of the renderer
  renderPending,      \* renderFinished events the body renderer has yet to fire
  updateCalls,        \* the number of update() calls so far
  events,             \* the update events fired, the renderer updates and the
                      \* renderFinished events received, in order
  renderingOptions,   \* LineUp.config.renderingOptions
  changed,            \* the last changeRenderingOption call and what it forwarded
  rows,       \* the data: the number each ranking column has for each row index
  filters,    \* the filter of each ranking column: the least value let through
  criterion,  \* the sort criterion of the ranking: none, or a column and asc
  order,      \* Ranking.getOrder(): the row indices in display order
  toggled,    \* the latest toggleMySorting() calls in a row on one column
  sortedBy,   \* the last LineUp.sortBy call: its arguments, its calls, its result
  clicked,    \* the last click on a column header and the toggleMySorting calls
  jumped,     \* the last jumpToNearest event and the scrollIntoView call it made
  columns,    \* the array of column descriptors handed to deriveColors
  derived,    \* the descriptors as they were before the last deriveColors
  rankings,   \* provider.getRankings(): each ranking as the list of its columns
  hidden,     \* the last click on a Hide button: the ranking and the column
  flatWidths, \* what flatten returns for each ranking of the provider
  headerLayout \* the offsets and the drop zone width of the last header update()

colVars == <<col, last, twin>>
treeVars == <<ranking, children, collapsed, compressed, levels, width, layout,
             pool, dropped>>

histVars == <<histograms, hOrder, hStatus, histCache, hPromises, hThen, displayed, hLast>>

optVars == <<renderingOptions, changed>>

lineupVars == <<data, listeners, selectionFired, isUpdateInitialized, renderListener,
                renderPending, updateCalls, events, optVars>>

rankVars == <<rows, filters, criterion, order, toggled, sortedBy, clicked, jumped>>

descVars == <<columns, derived>>

provVars == <<rankings, hidden, flatWidths, headerLayout>>

vars == <<colVars, treeVars, histVars, lineupVars, rankVars, descVars, provVars>>

\* what an operation of one object leaves alone: the other objects
notCol == <<treeVars, histVars, lineupVars, rankVars, descVars, provVars>>
notTree == <<colVars, histVars, lineupVars, rankVars, descVars, provVars>>
notHist == <<colVars, treeVars, lineupVars, rankVars, descVars, provVars>>
notLineUp == <<colVars, treeVars, histVars, rankVars, descVars, provVars>>
notRank == <<colVars, treeVars, histVars, lineupVars, descVars, provVars>>
notDesc == <<colVars, treeVars, histVars, lineupVars, rankVars, provVars>>
notProv == <<colVars, treeVars, histVars, lineupVars, rankVars, descVars>>

(***************************************************************************)
(* JavaScript values a column can compute: a number, NaN, null, undefined. *)
(***************************************************************************)
MaxNum == 1

Num(n) == [t |-> "num", n |-> n]
NaN == [t |-> "NaN", n |-> 0]
Null == [t |-> "null", n |-> 0]
Undefined == [t |-> "undefined", n |-> 0]

Numbers == {Num(n) : n \in 0..MaxNum}
Value == Numbers \cup {NaN, Null, Undefined}

\* A row is known by what the column's reduction makes of it.
Row == Value

\* d3 format specifiers; DefaultFormat is the field initializer's.
DefaultFormat == ".3n"
FormatSpec == {".3n", ".1f", "d"}

\* The descriptors a CompositeNumberColumn is created from. numberFormat ""
\* stands for an absent (falsy) entry, missingValue Undefined for an absent one.
ICompositeNumberDesc ==
  [ref : {"stack"},
   numberFormat : {"", ".1f"},
   missingValue : Numbers \cup {NaN, Undefined}]

\* Child columns, known by their descriptor reference.
ChildRef == {"a", "b"}
ChildLists == {<<>>, <<"a">>, <<"a", "b">>, <<"b", "a">>}

\* The subclasses override compute; the base class does not.
Kind == {"base", "derived"}

(***************************************************************************)
(* CompositeNumberColumn                                                   *)
(***************************************************************************)
\* new CompositeNumberColumn(id, desc), its children not yet pushed
constructor(desc, kind, loaded) ==
  [desc |-> desc,
   kind |-> kind,
   loaded |-> loaded,
   children |-> <<>>,
   missingValue |-> IF desc.missingValue # Undefined THEN desc.missingValue ELSE Num(0),
   numberFormat |-> IF desc.numberFormat # "" THEN desc.numberFormat ELSE DefaultFormat]

isLoaded(c) == c.loaded

setLoaded(c, b) == [c EXCEPT !.loaded = b]

\* CompositeColumn.push(col), for each child in turn
pushAll(c, cs) == [c EXCEPT !.children = c.children \o cs]

\* CompositeColumn.dump: the descriptor reference and the child dumps in order
superDump(c) == [desc |-> c.desc, children |-> c.children]

\* CompositeColumn.restore: each child dump goes through the factory and is pushed
superRestore(c, d) == pushAll(c, d.children)

dump(c) ==
  [f \in DOMAIN superDump(c) \cup {"missingValue"} |->
     IF f = "missingValue" THEN c.missingValue ELSE superDump(c)[f]]

\* CompositeColumn.restore: the calls of the factory, one for each child dump,
\* each with the extras the column has when the call is made
factoryCalls(c, d) ==
  [i \in 1..Len(d.children) |->
     [child |-> d.children[i],
      parent |-> [missingValue |-> c.missingValue, numberFormat |-> c.numberFormat]]]

\* the two conditional assignments of restore
restoreExtras(c, d) ==
  LET c1 == IF "missingValue" \in DOMAIN d /\ d.missingValue # Undefined
            THEN [c EXCEPT !.missingValue = d.missingValue] ELSE c
      c2 == IF "numberFormat" \in DOMAIN d /\ d.numberFormat # ""
            THEN [c1 EXCEPT !.numberFormat = d.numberFormat] ELSE c1
  IN c2

\* a restore that calls super.restore before it sets the extras
restoreRun_superFirst(c, d) ==
  [col |-> restoreExtras(superRestore(c, d), d), calls |-> factoryCalls(c, d)]

\* restore(dump, factory): the column afterwards and the factory calls made
restoreRun(c, d) ==
  LET c2 == restoreExtras(c, d)
  IN [col |-> superRestore(c2, d), calls |-> factoryCalls(c2, d)]

restore(c, d) == restoreRun(c, d).col

\* compute(row, index): NaN in the base class, the reduction in a subclass
compute(c, row) == IF c.kind = "base" THEN NaN ELSE row

\* typeof(v) === 'undefined' || v == null || isNaN(v)
isMissing(v) == v = Undefined \/ v = Null \/ v = NaN

getValue_noNaN(c, row) ==
  IF ~isLoaded(c) THEN Null
  ELSE LET v == compute(c, row)
       IN IF v = Undefined \/ v = Null THEN c.missingValue ELSE v

getValue(c, row) ==
  IF ~isLoaded(c) THEN Null
  ELSE LET v == compute(c, row)
       IN IF isMissing(v) THEN c.missingValue ELSE v

\* the calls of compute one getValue(row, index) makes
getValue_computes(c) == IF ~isLoaded(c) THEN 0 ELSE 1

\* typeof v === 'number'
typeofNumber(v) == v.t = "num" \/ v.t = "NaN"

\* '' + v
toStr(v) == IF v.t = "num" THEN ToString(v.n) ELSE v.t

\* +v, the number d3's format makes of its argument first
toNumber(v) == IF v = Null THEN Num(0) ELSE IF v = Undefined THEN NaN ELSE v

\* d3's format(spec)(v) for the specifiers of FormatSpec and a number below 10:
\* ".3n" is toPrecision(3) with grouping, ".1f" is toFixed(1), "d" is toString(10)
format(spec, v) ==
  LET x == toNumber(v)
  IN IF x = NaN THEN "NaN"
     ELSE IF spec = ".3n" THEN ToString(x.n) \o ".00"
     ELSE IF spec = ".1f" THEN ToString(x.n) \o ".0"
     ELSE ToString(x.n)

\* getLabel with the formatter applied to whatever getValue returns
getLabel_alwaysFormat(c, row) ==
  IF ~isLoaded(c) THEN ""
  ELSE format(c.numberFormat, getValue(c, row))

\* getLabel without its isLoaded check
getLabel_noLoadedCheck(c, row) ==
  LET v == getValue(c, row)
  IN IF typeofNumber(v) THEN format(c.numberFormat, v) ELSE toStr(v)

getLabel(c, row) ==
  IF ~isLoaded(c) THEN ""
  ELSE LET v == getValue(c, row)
       IN IF typeofNumber(v) THEN format(c.numberFormat, v) ELSE toStr(v)

\* the calls of compute one getLabel(row, index) makes
getLabel_computes(c) == IF ~isLoaded(c) THEN 0 ELSE getValue_computes(c)

compareArgs_raw(c, a, b) ==
  <<IF isLoaded(c) THEN compute(c, a) ELSE Null,
    IF isLoaded(c) THEN compute(c, b) ELSE Null>>

\* what compare(a, b, aIndex, bIndex) hands to numberCompare
compareArgs(c, a, b) == <<getValue(c, a), getValue(c, b)>>

\* The dump records restore can be given from outside: with and without each
\* of the type-specific extras. A record read back from JSON holds null where
\* NaN was written.
ExternalDumps(desc) ==
  LET base == {[desc |-> desc, children |-> cs] : cs \in {<<>>, <<"a">>}}
      with(S, f, V) == {[g \in DOMAIN d \cup {f} |-> IF g = f THEN v ELSE d[g]] :
                          d \in S, v \in V}
      mv == with(base, "missingValue", Numbers \cup {NaN, Null})
  IN base \cup mv \cup with(base \cup mv, "numberFormat", FormatSpec)

\* The factory of the provider: create(fromDescRef(dump.desc)), then restore.
factory(d, kind, loaded) == restore(constructor(d.desc, kind, loaded), d)

ColumnInit ==
  /\ \E desc \in ICompositeNumberDesc, kind \in Kind, loaded \in BOOLEAN,
        cs \in ChildLists :
       col = pushAll(constructor(desc, kind, loaded), cs)
  /\ last = <<>>
  /\ twin = constructor([ref |-> "stack", numberFormat |-> "", missingValue |-> Undefined],
                        "base", TRUE)

ColumnIdle ==
  /\ col = constructor([ref |-> "stack", numberFormat |-> "", missingValue |-> Undefined],
                       "base", TRUE)
  /\ last = <<>>
  /\ twin = col

SetLoaded(b) ==
  /\ UNCHANGED notCol
  /\ col' = setLoaded(col, b)
  /\ last' = <<[op |-> "setLoaded"]>>
  /\ UNCHANGED twin

\* a column freshly created by the factory is restored from a stored record
Restore(d) ==
  /\ UNCHANGED notCol
  /\ col.children = <<>>
  /\ col' = restore(col, d)
  /\ last' = <<[op |-> "restore", dump |-> d, calls |-> restoreRun(col, d).calls]>>
  /\ UNCHANGED twin

\* dump() followed by the factory's restore of the record into a new column
DumpRestore ==
  /\ UNCHANGED notCol
  /\ last' = <<[op |-> "dump", dump |-> dump(col),
                restored |-> factory(dump(col), col.kind, col.loaded)]>>
  /\ UNCHANGED <<col, twin>>

GetValue(row) ==
  /\ UNCHANGED notCol
  /\ last' = <<[op |-> "getValue", row |-> row, ret |-> getValue(col, row),
                computes |-> getValue_computes(col)]>>
  /\ UNCHANGED <<col, twin>>

GetLabel(row) ==
  /\ UNCHANGED notCol
  /\ last' = <<[op |-> "getLabel", row |-> row, value |-> getValue(col, row),
                ret |-> getLabel(col, row), computes |-> getLabel_computes(col)]>>
  /\ UNCHANGED <<col, twin>>

Compare(a, b) ==
  /\ UNCHANGED notCol
  /\ last' = <<[op |-> "compare", a |-> a, b |-> b, args |-> compareArgs(col, a, b)]>>
  /\ UNCHANGED <<col, twin>>

ColumnNext ==
  \/ \E b \in BOOLEAN : SetLoaded(b)
  \/ \E d \in ExternalDumps(col.desc) : Restore(d)
  \/ DumpRestore
  \/ \E row \in Row : GetValue(row)
  \/ \E row \in Row : GetLabel(row)
  \/ \E a \in Row, b \in Row : Compare(a, b)

(***************************************************************************)
(* Two columns created from one descriptor of a lazily loaded column, as   *)
(* the provider creates them and its clones: both start not loaded.        *)
(***************************************************************************)
LoadedInit ==
  /\ \E desc \in ICompositeNumberDesc, kind \in Kind :
       /\ col = constructor(desc, kind, FALSE)
       /\ twin = constructor(desc, kind, FALSE)
  /\ last = <<>>

TwinSetLoaded(b) ==
  /\ UNCHANGED notCol
  /\ twin' = setLoaded(twin, b)
  /\ last' = <<[op |-> "twinSetLoaded"]>>
  /\ UNCHANGED col

\* getValue and getLabel of the second column
TwinGet(row) ==
  /\ UNCHANGED notCol
  /\ last' = <<[op |-> "twinGet", row |-> row, value |-> getValue(twin, row),
                ret |-> getLabel(twin, row)]>>
  /\ UNCHANGED <<col, twin>>

LoadedNext ==
  \/ \E b \in BOOLEAN : SetLoaded(b)
  \/ \E b \in BOOLEAN : TwinSetLoaded(b)
  \/ \E row \in Row : GetValue(row)
  \/ \E row \in Row : GetLabel(row)
  \/ \E row \in Row : TwinGet(row)


(***************************************************************************)
(* The column tree the header renders (HeaderRenderer.ts)                  *)
(***************************************************************************)
NLeaves == 2

\* Stack columns (multi-level) and plain columns.
MultiLevel == {1, 2}
Leaves == {2 + i : i \in 1..NLeaves}
TreeCol == MultiLevel \cup Leaves

isMultiLevelColumn(c) == c \in MultiLevel

\* Math.max.apply(Math, []) is -Infinity, and so is 1 + -Infinity.
NegInfinity == -1000

MathMax(S) == IF S = {} THEN NegInfinity ELSE CHOOSE x \in S : \A y \in S : y <= x

Plus(n, x) == IF x = NegInfinity THEN NegInfinity ELSE n + x

Range(s) == {s[i] : i \in 1..Len(s)}

RECURSIVE countMultiLevel(_)

countMultiLevel_collapsedOnly(c) ==
  IF isMultiLevelColumn(c) /\ ~collapsed[c]
  THEN Plus(1, MathMax({countMultiLevel(k) : k \in Range(children[c])}))
  ELSE 1

countMultiLevel(c) ==
  IF isMultiLevelColumn(c) /\ ~collapsed[c] /\ ~compressed[c]
  THEN Plus(1, MathMax({countMultiLevel(k) : k \in Range(children[c])}))
  ELSE 1

\* The ids of s in increasing order.
RECURSIVE SortedSeq(_)
SortedSeq(S) ==
  IF S = {} THEN <<>>
  ELSE LET m == CHOOSE x \in S : \A y \in S : x <= y
       IN <<m>> \o SortedSeq(S \ {m})

\* Where a column can be: 0 is the ranking itself; a multi-level column can
\* only be inside one with a smaller id, so the trees are acyclic.
ParentChoices ==
  {p \in [TreeCol -> {0} \cup MultiLevel] :
     \A c \in TreeCol : p[c] # 0 => p[c] < c}

TreeInit ==
  /\ \E p \in ParentChoices :
       /\ ranking = SortedSeq({c \in TreeCol : p[c] = 0})
       /\ children = [m \in MultiLevel |-> SortedSeq({c \in TreeCol : p[c] = m})]
  /\ collapsed = [m \in MultiLevel |-> FALSE]
  /\ compressed = [c \in TreeCol |-> FALSE]
  /\ levels = 0
  /\ width = [c \in TreeCol |-> 10 * c]
  /\ layout = <<>>
  /\ pool = {}
  /\ dropped = <<>>

TreeIdle ==
  /\ ranking = SortedSeq(TreeCol)
  /\ children = [m \in MultiLevel |-> <<>>]
  /\ collapsed = [m \in MultiLevel |-> FALSE]
  /\ compressed = [c \in TreeCol |-> FALSE]
  /\ levels = 0
  /\ width = [c \in TreeCol |-> 10 * c]
  /\ layout = <<>>
  /\ pool = {}
  /\ dropped = <<>>

Without(s, c) == SelectSeq(s, LAMBDA x : x # c)

Attached(c) == c \in Range(ranking) \/ \E m \in MultiLevel : c \in Range(children[m])

\* toolbar: (Un)Collapse toggles the compressed flag of a column
ToggleCompressed(c) ==
  /\ UNCHANGED notTree
  /\ Attached(c)
  /\ compressed' = [compressed EXCEPT ![c] = ~compressed[c]]
  /\ layout' = <<>>
  /\ UNCHANGED <<ranking, children, collapsed, levels, width, pool, dropped>>

\* toolbar: Compress/Expand toggles the collapsed flag of a multi-level column
ToggleCollapsed(c) ==
  /\ UNCHANGED notTree
  /\ Attached(c)
  /\ isMultiLevelColumn(c)
  /\ collapsed' = [collapsed EXCEPT ![c] = ~collapsed[c]]
  /\ layout' = <<>>
  /\ UNCHANGED <<ranking, children, compressed, levels, width, pool, dropped>>

\* toolbar: Hide on a column that is no rank column: d.removeMe()
Hide(c) ==
  /\ UNCHANGED notTree
  /\ Attached(c)
  /\ ranking' = Without(ranking, c)
  /\ children' = [m \in MultiLevel |-> Without(children[m], c)]
  /\ layout' = <<>>
  /\ UNCHANGED <<collapsed, compressed, levels, width, pool, dropped>>

\* update(): levels = Math.max(...columns.map(countMultiLevel)) over the
\* columns of the ranking
HeaderUpdate ==
  /\ UNCHANGED notTree
  /\ levels' = MathMax({countMultiLevel(c) : c \in Range(ranking)})
  /\ UNCHANGED <<ranking, children, collapsed, compressed, width, layout, pool, dropped>>

\* options.columnPadding
columnPadding == 5

\* a column that flatten emits as one entry: a leaf, or a composite that is
\* collapsed or compressed
isFlat(c) == ~isMultiLevelColumn(c) \/ collapsed[c] \/ compressed[c]

Merge(f, g) == [x \in DOMAIN f \cup DOMAIN g |-> IF x \in DOMAIN f THEN f[x] ELSE g[x]]

RECURSIVE flatten(_, _, _), flattenAll(_, _, _)

flattenAll_noPadding(cs, offset, padding) ==
  IF cs = <<>> THEN [out |-> <<>>, w |-> 0, spans |-> <<>>]
  ELSE LET first == flatten(Head(cs), offset, padding)
       IN IF Tail(cs) = <<>> THEN first
          ELSE LET rest == flattenAll(Tail(cs), offset + first.w, padding)
               IN [out |-> first.out \o rest.out,
                   w |-> first.w + padding + rest.w,
                   spans |-> Merge(first.spans, rest.spans)]

\* the children cs in order, the first at offset and each next one behind the
\* one before it and the padding; the width consumed is the sum of the widths
\* of the children plus the padding between them
flattenAll(cs, offset, padding) ==
  IF cs = <<>> THEN [out |-> <<>>, w |-> 0, spans |-> <<>>]
  ELSE LET first == flatten(Head(cs), offset, padding)
       IN IF Tail(cs) = <<>> THEN first
          ELSE LET rest == flattenAll(Tail(cs), offset + first.w + padding, padding)
               IN [out |-> first.out \o rest.out,
                   w |-> first.w + padding + rest.w,
                   spans |-> Merge(first.spans, rest.spans)]

\* flatten(output, startOffset, padding) of column c: out is what it appends to
\* output, w the width it returns, spans the offset and width of every column
\* it walks over
flatten(c, offset, padding) ==
  IF isFlat(c)
  THEN [out |-> <<[col |-> c, offset |-> offset, width |-> width[c]]>>,
        w |-> width[c],
        spans |-> [x \in {c} |-> [offset |-> offset, width |-> width[c]]]]
  ELSE LET r == flattenAll(children[c], offset, padding)
       IN [out |-> r.out,
           w |-> r.w,
           spans |-> Merge([x \in {c} |-> [offset |-> offset, width |-> r.w]], r.spans)]

\* the ranking is flattened from offset 0; every expanded composite on the way
\* gets its derived width
Flatten ==
  /\ UNCHANGED notTree
  /\ LET r == flattenAll(ranking, 0, columnPadding)
     IN /\ layout' = <<r>>
        /\ width' = [c \in TreeCol |->
                       IF c \in DOMAIN r.spans /\ ~isFlat(c) THEN r.spans[c].width
                       ELSE width[c]]
  /\ UNCHANGED <<ranking, children, collapsed, compressed, levels, pool, dropped>>

TreeNext ==
  \/ \E c \in TreeCol : ToggleCompressed(c)
  \/ \E c \in TreeCol : ToggleCollapsed(c)
  \/ \E c \in TreeCol : Hide(c)
  \/ HeaderUpdate

\* the layout: flatten between changes of the tree
FlattenNext ==
  \/ Flatten
  \/ \E c \in MultiLevel : ToggleCompressed(c)
  \/ \E c \in MultiLevel : ToggleCollapsed(c)
  \/ \E c \in TreeCol : Hide(c)

(***************************************************************************)
(* Drag and drop on the header (HeaderRenderer.ts): dropHandler on the     *)
(* handles and the drop zone, and the drop handlers of the labels          *)
(***************************************************************************)
\* The tree of columns as a value: the columns of the ranking and the
\* children of every composite.
Tree == [r |-> ranking, ch |-> children]

\* the parents of column c in tree t; 0 stands for the ranking
Parents(t, c) ==
  (IF c \in Range(t.r) THEN {0} ELSE {}) \cup {m \in MultiLevel : c \in Range(t.ch[m])}

\* the columns of S and everything up to n levels inside them, looking into
\* the composites of open only; no column is deeper than there are composites
RECURSIVE Below(_, _, _, _)
Below(t, S, open, n) ==
  IF n = 0 THEN S
  ELSE Below(t, S \cup UNION {Range(t.ch[m]) : m \in S \cap open}, open, n - 1)

\* column c and its descendants
Sub(t, c) == Below(t, {c}, MultiLevel, Cardinality(MultiLevel))

\* data.find(id): the column of that id in a ranking, 0 (null) without one
find(t, id) ==
  IF id \in Below(t, Range(t.r), MultiLevel, Cardinality(MultiLevel)) THEN id ELSE 0

\* the columns with a header: those of the ranking and the children of every
\* displayed multi-level column that is neither collapsed nor compressed
Rendered ==
  Below(Tree, Range(ranking), {m \in MultiLevel : ~collapsed[m] /\ ~compressed[m]},
        Cardinality(MultiLevel))

\* col.removeMe(): the column is unlinked from its parent
removeMe(t, c) ==
  [r |-> Without(t.r, c), ch |-> [m \in MultiLevel |-> Without(t.ch[m], c)]]

\* s with x put in at index i, counted from 0
InsertAt(s, x, i) ==
  LET k == IF i > Len(s) THEN Len(s) ELSE i
  IN SubSeq(s, 1, k) \o <<x>> \o SubSeq(s, k + 1, Len(s))

\* s.indexOf(x), counted from 0
IndexOf(s, x) == (CHOOSE i \in 1..Len(s) : s[i] = x) - 1

\* parent.insert(col, index), parent 0 being the ranking: a column that holds
\* the parent is refused, any other is unlinked from its old parent first
insert(t, parent, c, index) ==
  IF parent # 0 /\ parent \in Sub(t, c)
  THEN [ok |-> FALSE, t |-> t]
  ELSE LET t1 == removeMe(t, c)
       IN [ok |-> TRUE,
           t |-> IF parent = 0
                 THEN [t1 EXCEPT !.r = InsertAt(@, c, index)]
                 ELSE [t1 EXCEPT !.ch[parent] = InsertAt(@, c, index)]]

\* parent.push(col): insert at the end
push(t, parent, c) ==
  insert(t, parent, c, Len(IF parent = 0 THEN t.r ELSE t.ch[parent]))

\* d.insertAfterMe(col): insert behind d in d's parent; fails without a parent
insertAfterMe(t, d, c) ==
  LET t1 == removeMe(t, c)
  IN IF Parents(t1, d) = {}
     THEN [ok |-> FALSE, t |-> t]
     ELSE LET parent == CHOOSE x \in Parents(t1, d) : TRUE
              list == IF parent = 0 THEN t1.r ELSE t1.ch[parent]
          IN insert(t, parent, c, IndexOf(list, d) + 1)

\* the id the next column of kind K is created with
Fresh(ids, K) == CHOOSE x \in ids \cap K : \A y \in ids \cap K : x <= y

PosIn(s, x) == CHOOSE i \in 1..Len(s) : s[i] = x

\* data.clone(col): a new column for c and for every column inside it
cloneMap(t, ids, c) ==
  [x \in Sub(t, c) |->
     IF x \in MultiLevel
     THEN SortedSeq(ids \cap MultiLevel)[PosIn(SortedSeq(Sub(t, c) \cap MultiLevel), x)]
     ELSE SortedSeq(ids \cap Leaves)[PosIn(SortedSeq(Sub(t, c) \cap Leaves), x)]]

canClone(t, ids, c) ==
  /\ Cardinality(Sub(t, c) \cap MultiLevel) <= Cardinality(ids \cap MultiLevel)
  /\ Cardinality(Sub(t, c) \cap Leaves) <= Cardinality(ids \cap Leaves)

clone(t, ids, c) ==
  LET f == cloneMap(t, ids, c)
      made == {f[x] : x \in Sub(t, c)}
      origin == [y \in made |-> CHOOSE x \in Sub(t, c) : f[x] = y]
  IN [col |-> f[c],
      t |-> [t EXCEPT !.ch = [m \in MultiLevel |->
                                IF m \in made
                                THEN [i \in 1..Len(t.ch[origin[m]]) |-> f[t.ch[origin[m]][i]]]
                                ELSE t.ch[m]]],
      origin |-> origin]

\* What a drop carries: the id of a dragged column and whether it is a copy,
\* or the descriptor of a column to create.
DropData ==
  [ref : TreeCol, copy : BOOLEAN] \cup [desc : {"number", "stack"}]

\* the drop can be carried out with the ids that are left
canDrop(t, ids, dragged) ==
  IF "ref" \in DOMAIN dragged
  THEN /\ find(t, dragged.ref) # 0
       /\ dragged.copy => canClone(t, ids, dragged.ref)
  ELSE ids \cap (IF dragged.desc = "stack" THEN MultiLevel ELSE Leaves) # {}

droppedColumn_noClone(t, ids, dragged) ==
  IF "ref" \in DOMAIN dragged
  THEN [col |-> find(t, dragged.ref),
        t |-> IF dragged.copy THEN t ELSE removeMe(t, find(t, dragged.ref)),
        origin |-> <<>>]
  ELSE LET c == Fresh(ids, IF dragged.desc = "stack" THEN MultiLevel ELSE Leaves)
       IN [col |-> c, t |-> t, origin |-> [y \in {c} |-> 0]]

\* the column a drop handler inserts: the dragged column, removed from its
\* parent, or its clone, or a new column of the descriptor; origin maps every
\* new column to the column it copies, 0 for a created one
droppedColumn(t, ids, dragged) ==
  IF "ref" \in DOMAIN dragged
  THEN LET found == find(t, dragged.ref)
       IN IF dragged.copy
          THEN clone(t, ids, found)
          ELSE [col |-> found, t |-> removeMe(t, found), origin |-> <<>>]
  ELSE LET c == Fresh(ids, IF dragged.desc = "stack" THEN MultiLevel ELSE Leaves)
       IN [col |-> c, t |-> t, origin |-> [y \in {c} |-> 0]]

MaxDrops == 1

\* the number of drops so far
DropCount == IF dropped = <<>> THEN 0 ELSE dropped[1].n

\* the tree after a drop, the new columns taking over flags and width
Commit(t, origin, rec) ==
  /\ ranking' = t.r
  /\ children' = t.ch
  /\ pool' = pool \ DOMAIN origin
  /\ collapsed' = [m \in MultiLevel |->
                     IF m \in DOMAIN origin
                     THEN (IF origin[m] = 0 THEN FALSE ELSE collapsed[origin[m]])
                     ELSE collapsed[m]]
  /\ compressed' = [c \in TreeCol |->
                      IF c \in DOMAIN origin
                      THEN (IF origin[c] = 0 THEN FALSE ELSE compressed[origin[c]])
                      ELSE compressed[c]]
  /\ width' = [c \in TreeCol |->
                 IF c \in DOMAIN origin /\ origin[c] # 0 THEN width[origin[c]] ELSE width[c]]
  /\ dropped' = <<[f \in DOMAIN rec \cup {"n"} |->
                     IF f = "n" THEN DropCount + 1 ELSE rec[f]]>>
  /\ layout' = <<>>
  /\ UNCHANGED levels

\* dropHandler on the handle of column d
DropOnHandle(d, dragged) ==
  /\ UNCHANGED notTree
  /\ DropCount < MaxDrops
  /\ d \in Rendered
  /\ canDrop(Tree, pool, dragged)
  /\ \E s \in {droppedColumn(Tree, pool, dragged)} :
     \E res \in {insertAfterMe(s.t, d, s.col)} :
        Commit(res.t, s.origin,
               [on |-> "handle", d |-> d, dragged |-> dragged, col |-> s.col,
                ret |-> IF res.ok THEN "true" ELSE "false"])

\* dropHandler on the drop zone: getLastRanking().push(col)
DropOnZone(dragged) ==
  /\ UNCHANGED notTree
  /\ DropCount < MaxDrops
  /\ canDrop(Tree, pool, dragged)
  /\ \E s \in {droppedColumn(Tree, pool, dragged)} :
     \E res \in {push(s.t, 0, s.col)} :
        Commit(res.t, s.origin,
               [on |-> "zone", d |-> 0, dragged |-> dragged, col |-> s.col,
                ret |-> IF res.ok THEN "true" ELSE "false"])

\* the drop handler of the label of a multi-level column d: d.push(col)
DropOnMultiLevel(d, dragged) ==
  /\ UNCHANGED notTree
  /\ DropCount < MaxDrops
  /\ d \in Rendered /\ isMultiLevelColumn(d)
  /\ canDrop(Tree, pool, dragged)
  /\ \E s \in {droppedColumn(Tree, pool, dragged)} :
     \E res \in {push(s.t, d, s.col)} :
        Commit(res.t, s.origin,
               [on |-> "multiLevel", d |-> d, dragged |-> dragged, col |-> s.col,
                ret |-> IF res.ok THEN "true" ELSE "false"])

\* the drop handler of the label of a number column d of the ranking that is
\* not multi-level: d and col go into a new stack at the index of d.
\* d.findMyRanker() is null when d has just been removed, and indexOf throws.
DropOnNumber(d, dragged) ==
  /\ UNCHANGED notTree
  /\ DropCount < MaxDrops
  /\ d \in Range(ranking) /\ ~isMultiLevelColumn(d)
  /\ canDrop(Tree, pool, dragged)
  /\ \E s \in {droppedColumn(Tree, pool, dragged)} :
       IF Parents(s.t, d) = {}
       THEN Commit(s.t, s.origin,
                   [on |-> "number", d |-> d, dragged |-> dragged, col |-> s.col,
                    ret |-> "throws"])
       ELSE /\ (pool \ DOMAIN s.origin) \cap MultiLevel # {}
            /\ LET index == IndexOf(s.t.r, d)
                   stack == Fresh(pool \ DOMAIN s.origin, MultiLevel)
                   t1 == removeMe(s.t, d)
                   t2 == push(t1, stack, d).t
                   t3 == push(t2, stack, s.col).t
               IN \E res \in {insert(t3, 0, stack, index)} :
                     Commit(res.t, Merge(s.origin, [y \in {stack} |-> 0]),
                            [on |-> "number", d |-> d, dragged |-> dragged, col |-> s.col,
                             ret |-> IF res.ok THEN "true" ELSE "false"])

\* Some columns are in the ranking or inside a composite, the other ids are
\* still to be given out.
DropInit ==
  /\ \E ids \in SUBSET TreeCol, p \in ParentChoices :
       /\ \A c \in TreeCol : IF c \in ids THEN p[c] = 0 ELSE p[c] \notin ids
       /\ pool = ids
       /\ ranking = SortedSeq({c \in TreeCol \ ids : p[c] = 0})
       /\ children = [m \in MultiLevel |-> SortedSeq({c \in TreeCol \ ids : p[c] = m})]
  /\ collapsed = [m \in MultiLevel |-> FALSE]
  /\ compressed = [c \in TreeCol |-> FALSE]
  /\ levels = 0
  /\ width = [c \in TreeCol |-> 10 * c]
  /\ layout = <<>>
  /\ dropped = <<>>

DropNext ==
  \/ \E d \in TreeCol, dragged \in DropData : DropOnHandle(d, dragged)
  \/ \E dragged \in DropData : DropOnZone(dragged)
  \/ \E d \in TreeCol, dragged \in DropData : DropOnMultiLevel(d, dragged)
  \/ \E d \in TreeCol, dragged \in DropData : DropOnNumber(d, dragged)

\* A drop by reference of an id that data.find does not know: col is null (0).
\* data.clone(null), and push or insertAfterMe of null, are calls into code
\* that either throws on null or rejects it and returns null.
NullOutcome == {"throws", "null"}

\* dropHandler with col = null: a move throws at col.removeMe() (line 142),
\* a copy goes through data.clone(null) and d.insertAfterMe(null) or
\* getLastRanking().push(null); d = 0 is the drop zone
DropUnknownOnHandle(d, dragged, outcome) ==
  /\ UNCHANGED notTree
  /\ DropCount < MaxDrops
  /\ d = 0 \/ d \in Rendered
  /\ "ref" \in DOMAIN dragged /\ find(Tree, dragged.ref) = 0
  /\ ~dragged.copy => outcome = "throws"
  /\ Commit(Tree, <<>>,
            [on |-> IF d = 0 THEN "zone" ELSE "handle", d |-> d, dragged |-> dragged,
             col |-> 0, ret |-> IF outcome = "throws" THEN "throws" ELSE "false"])

\* the drop handler of the label of a multi-level column with col = null:
\* removeMe is guarded by `else if (col)`, then d.push(null)
DropUnknownOnMultiLevel(d, dragged, outcome) ==
  /\ UNCHANGED notTree
  /\ DropCount < MaxDrops
  /\ d \in Rendered /\ isMultiLevelColumn(d)
  /\ "ref" \in DOMAIN dragged /\ find(Tree, dragged.ref) = 0
  /\ Commit(Tree, <<>>,
            [on |-> "multiLevel", d |-> d, dragged |-> dragged, col |-> 0,
             ret |-> IF outcome = "throws" THEN "throws" ELSE "false"])

\* the drop handler of the label of a number column d with col = null: unless
\* data.clone(null) throws, d is removed from the ranking and pushed into a
\* new stack, stack.push(null) follows, and the stack is inserted at the
\* index of d if that call returned
unknownOnNumber(t, ids, d, cloneThrows, outcome) ==
  IF cloneThrows
  THEN [t |-> t, origin |-> <<>>, ret |-> "throws"]
  ELSE LET index == IndexOf(t.r, d)
           stack == Fresh(ids, MultiLevel)
           t1 == removeMe(t, d)
           t2 == push(t1, stack, d).t
           res == insert(t2, 0, stack, index)
       IN IF outcome = "throws"
          THEN [t |-> t2, origin |-> [y \in {stack} |-> 0], ret |-> "throws"]
          ELSE [t |-> res.t, origin |-> [y \in {stack} |-> 0],
                ret |-> IF res.ok THEN "true" ELSE "false"]

DropUnknownOnNumber(d, dragged, cloneThrows, outcome) ==
  /\ UNCHANGED notTree
  /\ DropCount < MaxDrops
  /\ d \in Range(ranking) /\ ~isMultiLevelColumn(d)
  /\ "ref" \in DOMAIN dragged /\ find(Tree, dragged.ref) = 0
  /\ cloneThrows => dragged.copy
  /\ (pool \ {dragged.ref}) \cap MultiLevel # {}
  /\ \E s \in {unknownOnNumber(Tree, pool \ {dragged.ref}, d, cloneThrows, outcome)} :
        Commit(s.t, s.origin,
               [on |-> "number", d |-> d, dragged |-> dragged, col |-> 0, ret |-> s.ret])

DropUnknownNext ==
  \/ \E d \in {0} \cup TreeCol, dragged \in DropData, outcome \in NullOutcome :
        DropUnknownOnHandle(d, dragged, outcome)
  \/ \E d \in TreeCol, dragged \in DropData, outcome \in NullOutcome :
        DropUnknownOnMultiLevel(d, dragged, outcome)
  \/ \E d \in TreeCol, dragged \in DropData, cloneThrows \in BOOLEAN,
        outcome \in NullOutcome :
        DropUnknownOnNumber(d, dragged, cloneThrows, outcome)


(***************************************************************************)
(* The statistics cache of the header (HeaderRenderer.histCache)           *)
(***************************************************************************)
NHistCols == 2
MaxOrder == 2

\* Number columns with a histogram, and the rankings owning them.
HistCol == 1..NHistCols
HistRanking == {1, 2}
rankingOf(c) == IF c % 2 = 1 THEN 1 ELSE 2

\* ranking.flatColumns, less the hidden columns
flatVisible(r) == {c \in HistCol : rankingOf(c) = r /\ hStatus[c] = "shown"}

\* this.data.stats(order).stats(col): a promise of the statistics of col over
\* the order as it is now
stats(c) == [col |-> c, ver |-> hOrder'[rankingOf(c)]]

\* updateHist(): for every ranking, histCache.set(col.id, ...) for each of its
\* columns that is not hidden
updateHist ==
  LET cols == UNION {flatVisible(r) : r \in HistRanking}
  IN /\ histCache' = [c \in DOMAIN histCache \cup cols |->
                        IF c \in cols THEN stats(c) ELSE histCache[c]]
     /\ hPromises' = [q \in DOMAIN hPromises \cup {stats(c) : c \in cols} |->
                        IF q \in DOMAIN hPromises THEN hPromises[q] ELSE "pending"]

\* renderColumns: hist = histCache.get(col.id); if (hist) hist.then(render).
\* The callback of a promise that is already resolved runs before any other event.
renderColumns ==
  LET cols == {c \in UNION {flatVisible(r) : r \in HistRanking} : c \in DOMAIN histCache'}
      ps == {histCache'[c] : c \in cols}
      now == {q \in ps : hPromises'[q] = "resolved"}
  IN /\ hThen' = [q \in DOMAIN hThen \cup ps |->
                    IF q \in now THEN "done"
                    ELSE IF q \in DOMAIN hThen THEN hThen[q] ELSE "pending"]
     /\ displayed' = [c \in DOMAIN displayed \cup {q.col : q \in now} |->
                        IF \E q \in now : q.col = c THEN histCache'[c].ver
                        ELSE displayed[c]]

HistInit ==
  /\ histograms \in BOOLEAN
  /\ hOrder = [r \in HistRanking |-> 0]
  /\ hStatus = [c \in HistCol |-> "shown"]
  /\ histCache = <<>>
  /\ hPromises = <<>>
  /\ hThen = <<>>
  /\ displayed = <<>>
  /\ hLast = "init"

HistIdle ==
  /\ histograms = FALSE
  /\ hOrder = [r \in HistRanking |-> 0]
  /\ hStatus = [c \in HistCol |-> "shown"]
  /\ histCache = <<>>
  /\ hPromises = <<>>
  /\ hThen = <<>>
  /\ displayed = <<>>
  /\ hLast = "init"

\* the order of ranking r changes; with histograms the listener registered in
\* changeDataStorage runs updateHist() and update()
OrderChanged(r) ==
  /\ UNCHANGED notHist
  /\ hOrder[r] < MaxOrder
  /\ hOrder' = [hOrder EXCEPT ![r] = hOrder[r] + 1]
  /\ IF histograms
     THEN updateHist /\ renderColumns
     ELSE UNCHANGED <<histCache, hPromises, hThen, displayed>>
  /\ hLast' = "order"
  /\ UNCHANGED <<histograms, hStatus>>

\* update(), on a dirty header: fills the cache if it is empty, then renders
HistUpdate ==
  /\ UNCHANGED notHist
  /\ UNCHANGED <<histograms, hOrder, hStatus>>
  /\ IF histograms /\ DOMAIN histCache = {}
     THEN updateHist
     ELSE UNCHANGED <<histCache, hPromises>>
  /\ IF histograms
     THEN renderColumns
     ELSE UNCHANGED <<hThen, displayed>>
  /\ hLast' = "update"

\* the provider resolves a promise; the render callback waiting on it runs
Resolve(q) ==
  /\ UNCHANGED notHist
  /\ q \in DOMAIN hPromises /\ hPromises[q] = "pending"
  /\ hPromises' = [hPromises EXCEPT ![q] = "resolved"]
  /\ IF q \in DOMAIN hThen /\ hThen[q] = "pending"
     THEN /\ hThen' = [hThen EXCEPT ![q] = "done"]
          /\ displayed' = [c \in DOMAIN displayed \cup {q.col} |->
                             IF c = q.col THEN q.ver ELSE displayed[c]]
     ELSE UNCHANGED <<hThen, displayed>>
  /\ hLast' = "resolve"
  /\ UNCHANGED <<histograms, hOrder, hStatus, histCache>>

\* a column is hidden (isHidden()) or shown again
SetHidden(c, hide) ==
  /\ UNCHANGED notHist
  /\ hStatus[c] = (IF hide THEN "shown" ELSE "hidden")
  /\ hStatus' = [hStatus EXCEPT ![c] = IF hide THEN "hidden" ELSE "shown"]
  /\ hLast' = "hidden"
  /\ UNCHANGED <<histograms, hOrder, histCache, hPromises, hThen, displayed>>

\* toolbar: Hide removes the column from its ranking (removeMe)
RemoveColumn(c) ==
  /\ UNCHANGED notHist
  /\ hStatus[c] # "removed"
  /\ hStatus' = [hStatus EXCEPT ![c] = "removed"]
  /\ hLast' = "removed"
  /\ UNCHANGED <<histograms, hOrder, histCache, hPromises, hThen, displayed>>

HistNext ==
  \/ \E r \in HistRanking : OrderChanged(r)
  \/ HistUpdate
  \/ \E q \in DOMAIN hPromises : Resolve(q)
  \/ \E c \in HistCol, hide \in BOOLEAN : SetHidden(c, hide)
  \/ \E c \in HistCol : RemoveColumn(c)


(***************************************************************************)
(* LineUp (lineup.ts): the data provider's events and update()             *)
(***************************************************************************)
NProviders == 2
MaxUpdates == 3

Provider == 1..NProviders

\* The lists of data indices a selection change carries.
IndexLists == {<<>>, <<0>>, <<1, 0>>}

\* The first update() waits for three renderFinished events, a later one for one.
FirstRenderEvents == 3
LaterRenderEvents == 1

SelectionListener == "selectionChanged.main"
JumpListener == "jumpToNearest.main"

\* data.on([...'.main'], null): the ".main" listeners of provider p are removed
unregister_keep(ls, p) == ls

unregister(ls, p) == [ls EXCEPT ![p] = {}]

\* data.on(`${EVENT}.main`, ...), twice: a listener of the same name is replaced
register(ls, p) == [ls EXCEPT ![p] = ls[p] \cup {SelectionListener, JumpListener}]

\* the two events the other way round
triggerSelection_multiFirst(dataIndices) ==
  <<[type |-> "multiSelectionChanged", arg |-> dataIndices],
    [type |-> "selectionChanged",
     arg |-> IF Len(dataIndices) > 0 THEN <<dataIndices[1]>> ELSE <<-1>>]>>

\* triggerSelection(dataIndices): the events LineUp fires, in order
triggerSelection(dataIndices) ==
  <<[type |-> "selectionChanged",
     arg |-> IF Len(dataIndices) > 0 THEN <<dataIndices[1]>> ELSE <<-1>>],
    [type |-> "multiSelectionChanged", arg |-> dataIndices]>>

\* IRenderingOptions and the defaults of defaultConfig()
RenderingOption == {"stacked", "animation", "summary", "meanLine", "histograms"}

defaultRenderingOptions ==
  [o \in RenderingOption |-> o \in {"stacked", "animation"}]

\* The renderingOptions of the config given to the constructor: any of the
\* options, each true or false.
PartialOptions == UNION {[S -> BOOLEAN] : S \in SUBSET RenderingOption}

\* merge(this.config, config), then the backwards compatibility of histograms
constructOptions(config) ==
  LET merged == [o \in RenderingOption |->
                   IF o \in DOMAIN config THEN config[o] ELSE defaultRenderingOptions[o]]
  IN IF merged["histograms"] THEN [merged EXCEPT !["summary"] = TRUE] ELSE merged

\* changeRenderingOption(option, value): the options afterwards and the calls
\* of renderer.setBodyOption
changeRenderingOption(opts, option, value) ==
  [options |-> [opts EXCEPT ![option] = value],
   forwarded |-> IF option \in {"animation", "stacked"}
                 THEN <<[option |-> option, value |-> value]>> ELSE <<>>]

\* update(): what it does to the update state
update ==
  LET waitForBodyRenderer == IF isUpdateInitialized THEN LaterRenderEvents
                             ELSE FirstRenderEvents
      call == updateCalls + 1
  IN /\ isUpdateInitialized' = TRUE
     /\ updateCalls' = call
     /\ events' = events \o <<[e |-> "updateStart", call |-> call],
                              [e |-> "renderer.update", call |-> call]>>
     /\ renderPending' = renderPending + waitForBodyRenderer
     /\ renderListener' = <<[call |-> call, wait |-> waitForBodyRenderer]>>

LineUpInit ==
  /\ data = 1
  /\ listeners = register([p \in Provider |-> {}], 1)
  /\ selectionFired = <<>>
  /\ isUpdateInitialized = FALSE
  /\ renderListener = <<>>
  /\ renderPending = 0
  /\ updateCalls = 0
  /\ events = <<>>
  /\ renderingOptions = constructOptions(<<>>)
  /\ changed = <<>>

LineUpIdle == LineUpInit

\* instance.update()
Update ==
  /\ UNCHANGED notLineUp
  /\ updateCalls < MaxUpdates
  /\ update
  /\ UNCHANGED <<data, listeners, selectionFired, optVars>>

\* the body renderer fires renderFinished; the listener of the last update() runs
RenderFinished ==
  /\ UNCHANGED notLineUp
  /\ renderPending > 0
  /\ renderPending' = renderPending - 1
  /\ renderListener # <<>>
  /\ LET l == renderListener[1]
     IN /\ renderListener' = <<[l EXCEPT !.wait = l.wait - 1]>>
        /\ events' = Append(events, [e |-> "renderFinished", call |-> 0])
                       \o IF l.wait - 1 = 0
                          THEN <<[e |-> "updateFinished", call |-> l.call]>>
                          ELSE <<>>
  /\ UNCHANGED <<data, listeners, selectionFired, isUpdateInitialized, updateCalls,
                 optVars>>

\* changeDataStorage(p, dump?), and restore(dump) when p is the current provider
ChangeDataStorage(p) ==
  /\ UNCHANGED notLineUp
  /\ updateCalls < MaxUpdates
  /\ data' = p
  /\ listeners' = register(unregister(listeners, data), p)
  /\ update
  /\ UNCHANGED <<selectionFired, optVars>>

\* the selection of provider p changes: p fires selectionChanged to its listeners
SelectionChanged(p, dataIndices) ==
  /\ UNCHANGED notLineUp
  /\ selectionFired' =
       <<[provider |-> p, current |-> (p = data), indices |-> dataIndices,
          fired |-> IF SelectionListener \in listeners[p]
                    THEN triggerSelection(dataIndices) ELSE <<>>]>>
  /\ UNCHANGED <<data, listeners, isUpdateInitialized, renderListener, renderPending,
                 updateCalls, events, optVars>>

ChangeRenderingOption(option, value) ==
  /\ UNCHANGED notLineUp
  /\ LET r == changeRenderingOption(renderingOptions, option, value)
     IN /\ renderingOptions' = r.options
        /\ changed' = <<[option |-> option, value |-> value, forwarded |-> r.forwarded]>>
  /\ UNCHANGED <<data, listeners, selectionFired, isUpdateInitialized, renderListener,
                 renderPending, updateCalls, events>>

\* new LineUp(container, data, config) for every renderingOptions of config
OptionsInit ==
  /\ data = 1
  /\ listeners = register([p \in Provider |-> {}], 1)
  /\ selectionFired = <<>>
  /\ isUpdateInitialized = FALSE
  /\ renderListener = <<>>
  /\ renderPending = 0
  /\ updateCalls = 0
  /\ events = <<>>
  /\ \E config \in PartialOptions : renderingOptions = constructOptions(config)
  /\ changed = <<>>

OptionsNext ==
  \E option \in RenderingOption, value \in BOOLEAN : ChangeRenderingOption(option, value)

LineUpNext ==
  \/ Update
  \/ RenderFinished
  \/ \E p \in Provider : ChangeDataStorage(p)
  \/ \E p \in Provider, dataIndices \in IndexLists : SelectionChanged(p, dataIndices)


(***************************************************************************)
(* Ranking: filters, the sort criterion and the order derived from them    *)
(***************************************************************************)
NRankRows == 4

RowIndex == 0..(NRankRows - 1)
RankCol == {"A", "B"}
Cell == {0, 1}

\* a row passes when every column's filter lets its value through
passes(i) == \A c \in RankCol : rows[i][c] >= filters[c]

\* the criterion column's compare(rowA, rowB, idxA, idxB), negated for descending
comparator(crit, a, b) ==
  LET d == rows[a][crit.col] - rows[b][crit.col]
  IN IF crit.asc THEN d ELSE -d

RECURSIVE insertSorted_unstable(_, _, _)
insertSorted_unstable(s, x, crit) ==
  IF s = <<>> THEN <<x>>
  ELSE IF comparator(crit, Head(s), x) < 0
       THEN <<Head(s)>> \o insertSorted_unstable(Tail(s), x, crit)
       ELSE <<x>> \o s

\* x goes behind every element that does not compare greater: a stable insertion
RECURSIVE insertSorted(_, _, _)
insertSorted(s, x, crit) ==
  IF s = <<>> THEN <<x>>
  ELSE IF comparator(crit, Head(s), x) <= 0
       THEN <<Head(s)>> \o insertSorted(Tail(s), x, crit)
       ELSE <<x>> \o s

RECURSIVE stableSort(_, _)
stableSort(s, crit) ==
  IF s = <<>> THEN <<>>
  ELSE insertSorted(stableSort(SubSeq(s, 1, Len(s) - 1), crit), s[Len(s)], crit)

\* the row indices in data order
dataOrder == [k \in 1..NRankRows |-> k - 1]

\* the recompute step under filters f and criterion crit
getOrder(f, crit) ==
  LET survivors == SelectSeq(dataOrder, LAMBDA i : \A c \in RankCol : rows[i][c] >= f[c])
  IN IF crit = <<>> THEN survivors ELSE stableSort(survivors, crit[1])

RankingInit ==
  /\ rows \in [RowIndex -> [RankCol -> Cell]]
  /\ filters = [c \in RankCol |-> 0]
  /\ criterion = <<>>
  /\ order = dataOrder
  /\ toggled = <<>>
  /\ sortedBy = <<>>
  /\ clicked = <<>>
  /\ jumped = <<>>

RankingIdle ==
  /\ rows = [i \in RowIndex |-> [c \in RankCol |-> 0]]
  /\ filters = [c \in RankCol |-> 0]
  /\ criterion = <<>>
  /\ order = dataOrder
  /\ toggled = <<>>
  /\ sortedBy = <<>>
  /\ clicked = <<>>
  /\ jumped = <<>>

\* the filter of column c changes
SetFilter(c, least) ==
  /\ UNCHANGED notRank
  /\ filters[c] # least
  /\ filters' = [filters EXCEPT ![c] = least]
  /\ order' = getOrder([filters EXCEPT ![c] = least], criterion)
  /\ toggled' = <<>>
  /\ sortedBy' = <<>>
  /\ clicked' = <<>>
  /\ jumped' = <<>>
  /\ UNCHANGED <<rows, criterion>>

\* sortByMe(ascending) on column c replaces the criterion
SortByMe(c, asc) ==
  /\ UNCHANGED notRank
  /\ criterion' = <<[col |-> c, asc |-> asc]>>
  /\ order' = getOrder(filters, <<[col |-> c, asc |-> asc]>>)
  /\ toggled' = <<>>
  /\ sortedBy' = <<>>
  /\ clicked' = <<>>
  /\ jumped' = <<>>
  /\ UNCHANGED <<rows, filters>>

\* the criterion is removed
ClearCriterion ==
  /\ UNCHANGED notRank
  /\ criterion # <<>>
  /\ criterion' = <<>>
  /\ order' = getOrder(filters, <<>>)
  /\ toggled' = <<>>
  /\ sortedBy' = <<>>
  /\ clicked' = <<>>
  /\ jumped' = <<>>
  /\ UNCHANGED <<rows, filters>>

\* the direction a column sorts by when it becomes the criterion by a toggle
defaultAscending(c) == c = "A"

toggleSorting_noFlip(crit, c) == <<[col |-> c, asc |-> defaultAscending(c)]>>

\* toggleMySorting() on column c under criterion crit: the new criterion
toggleSorting(crit, c) ==
  IF crit # <<>> /\ crit[1].col = c
  THEN <<[col |-> c, asc |-> ~crit[1].asc]>>
  ELSE <<[col |-> c, asc |-> defaultAscending(c)]>>

\* a click on the header or the label of column c: d.toggleMySorting()
ToggleMySorting(c) ==
  /\ UNCHANGED notRank
  /\ criterion' = toggleSorting(criterion, c)
  /\ order' = getOrder(filters, toggleSorting(criterion, c))
  /\ toggled' = (IF toggled # <<>> /\ toggled[Len(toggled)].col = c
                 THEN <<toggled[Len(toggled)]>> ELSE <<>>)
                \o <<[col |-> c, before |-> criterion]>>
  /\ sortedBy' = <<>>
  /\ clicked' = <<>>
  /\ jumped' = <<>>
  /\ UNCHANGED <<rows, filters>>

\* The ids sortBy can be given: those of the columns and one of no column.
ColumnId == RankCol \cup {"X"}

\* The ascending argument: given, or left out.
Ascending == {"true", "false", "omitted"}

\* data.find(column): the column, or null
dataFind(column) == IF column \in RankCol THEN column ELSE "null"

sortBy_ignoreAscending(column, ascending) ==
  LET found == dataFind(column)
  IN [calls |-> IF found # "null" THEN <<[col |-> found, asc |-> FALSE]>> ELSE <<>>,
      ret |-> found # "null"]

\* LineUp.sortBy(column, ascending = false): the sortByMe calls it makes and
\* what it returns
sortBy(column, ascending) ==
  LET found == dataFind(column)
      asc == IF ascending = "omitted" THEN FALSE ELSE ascending = "true"
  IN [calls |-> IF found # "null" THEN <<[col |-> found, asc |-> asc]>> ELSE <<>>,
      ret |-> found # "null"]

\* instance.sortBy(column, ascending)
SortBy(column, ascending) ==
  /\ UNCHANGED notRank
  /\ \E r \in {sortBy(column, ascending)} :
       /\ criterion' = IF r.calls = <<>> THEN criterion ELSE <<r.calls[Len(r.calls)]>>
       /\ order' = IF r.calls = <<>> THEN order
                   ELSE getOrder(filters, <<r.calls[Len(r.calls)]>>)
       /\ sortedBy' = <<[column |-> column, ascending |-> ascending, calls |-> r.calls,
                         ret |-> r.ret]>>
  /\ toggled' = <<>>
  /\ clicked' = <<>>
  /\ jumped' = <<>>
  /\ UNCHANGED <<rows, filters>>

\* The element of the header a click hits: the header itself, its label, or
\* its resize handle, a child of the header without a click handler.
ClickTarget == {"header", "label", "handle"}

ClickEvent == [target : ClickTarget, manipulative : BOOLEAN, defaultPrevented : BOOLEAN]

\* the elements the click event visits, from the target up to the header
bubblePath(target) == IF target = "header" THEN <<"header">> ELSE <<target, "header">>

\* the click listener of the header without the comparison of the targets
callsToggle_anyTarget(ev, currentTarget) ==
  IF currentTarget \in {"header", "label"}
  THEN ev.manipulative /\ ~ev.defaultPrevented
  ELSE FALSE

\* whether the click listener of the element currentTarget calls toggleMySorting
callsToggle(ev, currentTarget) ==
  IF currentTarget = "header"
  THEN ev.manipulative /\ ~ev.defaultPrevented /\ currentTarget = ev.target
  ELSE IF currentTarget = "label"
  THEN ev.manipulative /\ ~ev.defaultPrevented
  ELSE FALSE

\* the toggleMySorting calls of one click, in the order of the listeners
toggleCalls(ev) ==
  SelectSeq(bubblePath(ev.target), LAMBDA el : callsToggle(ev, el))

RECURSIVE toggleTimes(_, _, _)
toggleTimes(crit, c, n) ==
  IF n = 0 THEN crit ELSE toggleTimes(toggleSorting(crit, c), c, n - 1)

\* one click on the header of column c
Click(c, ev) ==
  /\ UNCHANGED notRank
  /\ LET n == Len(toggleCalls(ev))
     IN /\ criterion' = toggleTimes(criterion, c, n)
        /\ order' = getOrder(filters, toggleTimes(criterion, c, n))
        /\ clicked' = <<[col |-> c, ev |-> ev, calls |-> n]>>
  /\ toggled' = <<>>
  /\ sortedBy' = <<>>
  /\ jumped' = <<>>
  /\ UNCHANGED <<rows, filters>>

\* The data indices a jumpToNearest event carries.
JumpIndices == UNION {[1..n -> RowIndex] : n \in 0..2}

\* order.indexOf(d): the position of d from 0, -1 when d is not in the order
indexOf(o, d) ==
  IF \E k \in 1..Len(o) : o[k] = d
  THEN (CHOOSE k \in 1..Len(o) : o[k] = d /\ \A j \in 1..(k - 1) : o[j] # d) - 1
  ELSE -1

\* dataIndices.map((d) => order.indexOf(d)).sort((a, b) => a - b)[0]
firstIndex(o, dataIndices) ==
  LET indices == {indexOf(o, dataIndices[k]) : k \in 1..Len(dataIndices)}
  IN CHOOSE m \in indices : \A x \in indices : m <= x

\* jumpToNearest(dataIndices): the calls of renderer.scrollIntoView; hasRanking
\* is false when getRankings()[0] is undefined
jumpToNearest(o, dataIndices, hasRanking) ==
  IF Len(dataIndices) = 0 \/ ~hasRanking
  THEN <<>>
  ELSE <<[length |-> Len(o), index |-> firstIndex(o, dataIndices)]>>

\* the provider fires jumpToNearest
JumpToNearest(dataIndices, hasRanking) ==
  /\ UNCHANGED notRank
  /\ jumped' = <<[dataIndices |-> dataIndices, hasRanking |-> hasRanking,
                  scrolled |-> jumpToNearest(order, dataIndices, hasRanking)]>>
  /\ toggled' = <<>>
  /\ sortedBy' = <<>>
  /\ clicked' = <<>>
  /\ UNCHANGED <<rows, filters, criterion, order>>

RankingNext ==
  \/ \E c \in RankCol, least \in Cell : SetFilter(c, least)
  \/ \E c \in RankCol, asc \in BOOLEAN : SortByMe(c, asc)
  \/ ClearCriterion
  \/ \E c \in RankCol : ToggleMySorting(c)

\* the rankings the clicks are tried on: the rows differ in column B only
ClickInit ==
  /\ RankingInit
  /\ \A i \in RowIndex : rows[i]["A"] = 0

\* jumpToNearest next to the changes of the filters and of the criterion
JumpNext ==
  \/ \E dataIndices \in JumpIndices, hasRanking \in BOOLEAN :
       JumpToNearest(dataIndices, hasRanking)
  \/ \E c \in RankCol, least \in Cell : SetFilter(c, least)
  \/ \E c \in RankCol, asc \in BOOLEAN : SortByMe(c, asc)

\* the clicks on the headers next to the other changes of the criterion
ClickNext ==
  \/ \E c \in RankCol, ev \in ClickEvent : Click(c, ev)
  \/ \E c \in RankCol, asc \in BOOLEAN : SortByMe(c, asc)
  \/ ClearCriterion

\* LineUp.sortBy next to the other changes of the criterion
SortByNext ==
  \/ \E column \in ColumnId, ascending \in Ascending : SortBy(column, ascending)
  \/ \E c \in RankCol, asc \in BOOLEAN : SortByMe(c, asc)
  \/ ClearCriterion

(***************************************************************************)
(* deriveColors (lineup.ts): the colors of the number columns of an array  *)
(* of column descriptors. A descriptor is its type and its color, with     *)
(* "undefined" for a descriptor that has no color.                         *)
(***************************************************************************)
MaxDescs == 3

\* d3.scale.category10().range()
category10 == <<"#1f77b4", "#ff7f0e", "#2ca02c", "#d62728", "#9467bd",
                "#8c564b", "#e377c2", "#7f7f7f", "#bcbd22", "#17becf">>

DescType == {"number", "string"}

DescColor == {"undefined", "red", "#1f77b4"}

Desc == [type : DescType, color : DescColor]

DescArrays == UNION {[1..n -> Desc] : n \in 0..MaxDescs}

\* Array.prototype.shift: the first element, undefined of an empty array
shifted(colors) == IF colors = <<>> THEN "undefined" ELSE Head(colors)

afterShift(colors) == IF colors = <<>> THEN <<>> ELSE Tail(colors)

RECURSIVE forEachColor(_, _)

\* columns.forEach(col => switch (col.type) { case 'number': col.color = colors.shift() })
forEachColor(cs, colors) ==
  IF cs = <<>> THEN <<>>
  ELSE LET c == Head(cs)
       IN IF c.type = "number"
          THEN <<[c EXCEPT !.color = shifted(colors)]>>
                 \o forEachColor(Tail(cs), afterShift(colors))
          ELSE <<c>> \o forEachColor(Tail(cs), colors)

deriveColors(cs) == forEachColor(cs, category10)

\* deriveColors(columns): the array is changed in place and returned
DeriveColors ==
  /\ columns' = deriveColors(columns)
  /\ derived' = <<columns>>
  /\ UNCHANGED notDesc

DescInit == columns \in DescArrays /\ derived = <<>>

DescIdle == columns = <<>> /\ derived = <<>>

DescNext == DeriveColors

(***************************************************************************)
(* The Hide button of the header toolbar (HeaderRenderer.ts) and the       *)
(* rankings of the provider. A ranking is the list of its columns, each    *)
(* known by its type: "rank" for a RankColumn.                             *)
(***************************************************************************)
NProvRankings == 2

ProvColumns == {<<"rank">>, <<"rank", "a">>, <<"rank", "a", "b">>, <<"a", "b">>,
                <<"rank", "a", "rank">>}

RemoveAt(s, i) == [k \in 1..(Len(s) - 1) |-> IF k < i THEN s[k] ELSE s[k + 1]]

\* provider.removeRanking(ranking)
removeRanking(rs, r) == RemoveAt(rs, r)

\* provider.pushRanking(): a new ranking with its rank column
pushRanking(rs) == Append(rs, <<"rank">>)

\* the click handler without the check for the last ranking
hideClick_noPush(rs, r, j) ==
  IF rs[r][j] = "rank"
  THEN removeRanking(rs, r)
  ELSE [rs EXCEPT ![r] = RemoveAt(rs[r], j)]

\* the click handler of the Hide button of column j of ranking r
hideClick(rs, r, j) ==
  IF rs[r][j] = "rank"
  THEN LET left == removeRanking(rs, r)
       IN IF Len(left) = 0 THEN pushRanking(left) ELSE left
  ELSE [rs EXCEPT ![r] = RemoveAt(rs[r], j)]

HideClick(r, j) ==
  /\ r \in 1..Len(rankings)
  /\ j \in 1..Len(rankings[r])
  /\ rankings' = hideClick(rankings, r, j)
  /\ hidden' = <<[ranking |-> r, column |-> j]>>
  /\ UNCHANGED <<flatWidths, headerLayout>>
  /\ UNCHANGED notProv

ProvInit ==
  /\ rankings \in UNION {[1..n -> ProvColumns] : n \in 1..NProvRankings}
  /\ hidden = <<>>
  /\ flatWidths = <<0>>
  /\ headerLayout = <<>>

ProvIdle ==
  /\ rankings = <<<<"rank">>>>
  /\ hidden = <<>>
  /\ flatWidths = <<0>>
  /\ headerLayout = <<>>

ProvNext == \E r \in 1..NProvRankings, j \in 1..3 : HideClick(r, j)

(***************************************************************************)
(* HeaderRenderer.update(): the rankings side by side. The provider may    *)
(* hold no ranking at all; each ranking is known by the width its flatten  *)
(* returns.                                                                *)
(***************************************************************************)
slopeWidth == 150

NLayoutRankings == 3

FlatWidth == {0, 100, 215, 330}

RECURSIVE forEachRanking(_, _, _)

\* rankings.forEach: ranking.flatten(shifts, totalWidth, 1, columnPadding) is
\* called with the running totalWidth as its offset
forEachRanking(ws, totalWidth, acc) ==
  IF ws = <<>> THEN [acc EXCEPT !.totalWidth = totalWidth]
  ELSE LET next == totalWidth + Head(ws) + slopeWidth
       IN forEachRanking(Tail(ws), next,
                         [acc EXCEPT !.starts = Append(@, totalWidth),
                                     !.rankingOffsets = Append(@, next - slopeWidth)])

\* update(): the offsets handed to flatten, the offsets of the ranking buttons
\* and the width of div.drop
updateLayout(ws) ==
  LET loop == forEachRanking(ws, 0, [starts |-> <<>>, rankingOffsets |-> <<>>,
                                     totalWidth |-> 0])
  IN [starts |-> loop.starts, rankingOffsets |-> loop.rankingOffsets,
      dropWidth |-> loop.totalWidth - slopeWidth]

UpdateLayout ==
  /\ headerLayout' = <<updateLayout(flatWidths)>>
  /\ UNCHANGED <<rankings, hidden, flatWidths>>
  /\ UNCHANGED notProv

\* the rankings are rendered again with other widths
Resize(r, w) ==
  /\ r \in 1..Len(flatWidths)
  /\ flatWidths[r] # w
  /\ flatWidths' = [flatWidths EXCEPT ![r] = w]
  /\ headerLayout' = <<>>
  /\ UNCHANGED <<rankings, hidden>>
  /\ UNCHANGED notProv

LayoutInit ==
  /\ rankings \in UNION {[1..n -> {<<"rank">>}] : n \in 0..NLayoutRankings}
  /\ flatWidths \in [1..Len(rankings) -> FlatWidth]
  /\ hidden = <<>>
  /\ headerLayout = <<>>

LayoutNext ==
  \/ UpdateLayout
  \/ \E r \in 1..NLayoutRankings, w \in FlatWidth : Resize(r, w)

(***************************************************************************)
(* The specifications                                                      *)
(***************************************************************************)
Init == ColumnInit /\ TreeIdle /\ HistIdle /\ LineUpIdle /\ RankingIdle
  /\ DescIdle /\ ProvIdle

Next == ColumnNext

Spec == Init /\ [][Next]_vars

InitLoaded ==
  LoadedInit /\ TreeIdle /\ HistIdle /\ LineUpIdle /\ RankingIdle /\ DescIdle
  /\ ProvIdle

SpecLoaded == InitLoaded /\ [][LoadedNext]_vars

InitTree == TreeInit /\ ColumnIdle /\ HistIdle /\ LineUpIdle /\ RankingIdle
  /\ DescIdle /\ ProvIdle

SpecTree == InitTree /\ [][TreeNext]_vars

SpecFlatten == InitTree /\ [][FlattenNext]_vars

InitDrop == DropInit /\ ColumnIdle /\ HistIdle /\ LineUpIdle /\ RankingIdle
  /\ DescIdle /\ ProvIdle

SpecDrop == InitDrop /\ [][DropNext]_vars

SpecDropUnknown == InitDrop /\ [][DropUnknownNext]_vars

InitHist == HistInit /\ ColumnIdle /\ TreeIdle /\ LineUpIdle /\ RankingIdle
  /\ DescIdle /\ ProvIdle

SpecHist == InitHist /\ [][HistNext]_vars

InitLineUp == LineUpInit /\ ColumnIdle /\ TreeIdle /\ HistIdle /\ RankingIdle
  /\ DescIdle /\ ProvIdle

SpecLineUp == InitLineUp /\ [][LineUpNext]_vars

InitOptions ==
  OptionsInit /\ ColumnIdle /\ TreeIdle /\ HistIdle /\ RankingIdle /\ DescIdle
  /\ ProvIdle

SpecOptions == InitOptions /\ [][OptionsNext]_vars

InitRanking == RankingInit /\ ColumnIdle /\ TreeIdle /\ HistIdle /\ LineUpIdle
  /\ DescIdle /\ ProvIdle

SpecRanking == InitRanking /\ [][RankingNext]_vars

SpecSortBy == InitRanking /\ [][SortByNext]_vars

InitClick ==
  ClickInit /\ ColumnIdle /\ TreeIdle /\ HistIdle /\ LineUpIdle /\ DescIdle
  /\ ProvIdle

SpecClick == InitClick /\ [][ClickNext]_vars

SpecJump == InitClick /\ [][JumpNext]_vars

InitDesc ==
  DescInit /\ ColumnIdle /\ TreeIdle /\ HistIdle /\ LineUpIdle /\ RankingIdle
  /\ ProvIdle

SpecDesc == InitDesc /\ [][DescNext]_vars

InitProv ==
  ProvInit /\ ColumnIdle /\ TreeIdle /\ HistIdle /\ LineUpIdle /\ RankingIdle
  /\ DescIdle

SpecProv == InitProv /\ [][ProvNext]_vars

InitLayout ==
  LayoutInit /\ ColumnIdle /\ TreeIdle /\ HistIdle /\ LineUpIdle /\ RankingIdle
  /\ DescIdle

SpecLayout == InitLayout /\ [][LayoutNext]_vars

LastOp(op) == last # <<>> /\ last[1].op = op

(***************************************************************************)
(* C1: for a loaded column getValue returns the substitute whenever        *)
(* compute yields undefined, null or NaN and compute's result otherwise.   *)
(* As claimed: so it never returns undefined or NaN.                       *)
(***************************************************************************)
C1_Substitutes ==
  LastOp("getValue") /\ isLoaded(col) =>
    LET v == compute(col, last[1].row)
        r == last[1].ret
    IN /\ v.t \in {"undefined", "null", "NaN"} => r = col.missingValue
       /\ v.t = "num" => r = v

\* C1 as claimed: the substitution, and a loaded column never returns
\* undefined or NaN.
C1_Original ==
  /\ C1_Substitutes
  /\ LastOp("getValue") /\ isLoaded(col) => last[1].ret.t \notin {"undefined", "NaN"}

\* C1 as amended: the substitution, and a loaded column returns undefined,
\* null or NaN only when that value is the configured substitute itself.
C1_Amended ==
  /\ C1_Substitutes
  /\ LastOp("getValue") /\ isLoaded(col) =>
       (last[1].ret.t \in {"undefined", "null", "NaN"} => last[1].ret = col.missingValue)

\* C1: a loaded subclass column is asked for a row its reduction makes NaN of
C1_Witness ==
  /\ LastOp("getValue") /\ isLoaded(col)
  /\ col.kind = "derived"
  /\ last[1].row = NaN
  /\ last[1].ret = Num(1)

(***************************************************************************)
(* C2: compare hands the numeric comparator getValue of each row.  As      *)
(* claimed: in every state of the column, loaded or not, with a numeric    *)
(* substitute, both are ordinary numbers (never null, undefined or NaN).   *)
(***************************************************************************)
C2_Original ==
  LastOp("compare") /\ col.missingValue.t = "num" =>
    /\ last[1].args[1].t = "num"
    /\ last[1].args[2].t = "num"

\* what a loaded column makes of a row, missing values replaced
Substituted(c, row) ==
  IF compute(c, row).t = "num" THEN compute(c, row) ELSE c.missingValue

\* C2 as amended: a loaded column hands over the substituted value of each
\* row, two ordinary numbers when the substitute is an ordinary number; a
\* column that is not loaded hands over null for both rows.
C2_Amended ==
  LastOp("compare") =>
    IF isLoaded(col)
    THEN /\ last[1].args = <<Substituted(col, last[1].a), Substituted(col, last[1].b)>>
         /\ col.missingValue.t = "num" =>
              last[1].args[1].t = "num" /\ last[1].args[2].t = "num"
    ELSE last[1].args = <<Null, Null>>

\* C2: a loaded column compares a row without a value with a row that has one
C2_Witness ==
  /\ LastOp("compare") /\ isLoaded(col)
  /\ col.kind = "derived"
  /\ last[1].a = Undefined /\ last[1].b = Num(1)
  /\ last[1].args = <<Num(0), Num(1)>>

(***************************************************************************)
(* C3: round trip.  The column restored from dump(x) has x's missing-value *)
(* substitute and x's number format, gives the same getValue on every row  *)
(* and has its children in the same order.                                 *)
(***************************************************************************)
C3_RoundTrip ==
  LastOp("dump") =>
    LET y == last[1].restored
    IN /\ y.missingValue = col.missingValue
       /\ y.numberFormat = col.numberFormat
       /\ y.children = col.children
       /\ \A row \in Row : getValue(y, row) = getValue(col, row)

(***************************************************************************)
(* C4: the record dump() returns holds both the missing-value substitute   *)
(* and the number format of the column.                                    *)
(***************************************************************************)
C4_DumpExtras ==
  LastOp("dump") =>
    /\ {"missingValue", "numberFormat"} \subseteq DOMAIN last[1].dump
    /\ last[1].dump.missingValue = col.missingValue
    /\ last[1].dump.numberFormat = col.numberFormat

(***************************************************************************)
(* C5: countMultiLevel(c) is 1 for every leaf and for every multi-level    *)
(* column that is collapsed or compressed, whatever is below it; for an    *)
(* expanded, uncompressed multi-level column with children it is 1 plus    *)
(* the greatest countMultiLevel of a child.                                *)
(***************************************************************************)
C5_CountMultiLevel ==
  \A c \in TreeCol :
    IF c \in Leaves \/ collapsed[c] \/ compressed[c]
    THEN countMultiLevel(c) = 1
    ELSE children[c] # <<>> =>
           /\ \E k \in Range(children[c]) : countMultiLevel(c) = Plus(1, countMultiLevel(k))
           /\ \A k \in Range(children[c]) : Plus(1, countMultiLevel(k)) <= countMultiLevel(c)

\* C5: an expanded stack over a collapsed stack that has children, and a leaf
C5_Witness ==
  /\ ~collapsed[1] /\ ~compressed[1]
  /\ 2 \in Range(children[1]) /\ collapsed[2] /\ children[2] # <<>>
  /\ \E k \in Leaves : k \in Range(children[1])
  /\ countMultiLevel(2) = 1
  /\ countMultiLevel(1) = 2

(***************************************************************************)
(* C6: with histograms enabled, after every order-changed notification the *)
(* header renderer has handled, every entry of the statistics cache was    *)
(* computed from the current order of the ranking of its column; none of   *)
(* an earlier order remains, hidden and removed columns included.          *)
(***************************************************************************)
C6_InvalidatedWholesale ==
  histograms /\ hLast = "order" =>
    \A c \in DOMAIN histCache : histCache[c].ver = hOrder[rankingOf(c)]

(***************************************************************************)
(* C7: once every render callback has run, the histogram in the header of  *)
(* a column is that of the newest order its statistics were rendered for:  *)
(* a late result of an older order is never applied over a newer one.      *)
(***************************************************************************)
C7_StaleDiscarded ==
  (\A q \in DOMAIN hThen : hThen[q] = "done") =>
    \A c \in DOMAIN displayed :
      \A q \in DOMAIN hThen : q.col = c => q.ver <= displayed[c]

(***************************************************************************)
(* C8: every update() fires updateStart once, before the renderer is       *)
(* updated, and, once the body renderer has fired all its renderFinished   *)
(* events, updateFinished has been fired exactly once for that call, also  *)
(* when update() is called again before the rendering has finished.        *)
(***************************************************************************)
Count(e, call) ==
  Cardinality({i \in 1..Len(events) : events[i] = [e |-> e, call |-> call]})

C8_StartAndFinishOnce ==
  /\ \A call \in 1..updateCalls :
       /\ Count("updateStart", call) = 1
       /\ \A i, j \in 1..Len(events) :
            /\ events[i] = [e |-> "updateStart", call |-> call]
            /\ events[j] = [e |-> "renderer.update", call |-> call]
            => i < j
  /\ renderPending = 0 =>
       \A call \in 1..updateCalls : Count("updateFinished", call) = 1

(***************************************************************************)
(* C9: a selection change of the current data provider makes LineUp fire   *)
(* selectionChanged once and multiSelectionChanged once; a selection       *)
(* change of a provider that has been replaced fires nothing.              *)
(***************************************************************************)
FiredOf(type) ==
  Cardinality({i \in 1..Len(selectionFired[1].fired) :
                 selectionFired[1].fired[i].type = type})

C9_SelectionOnce ==
  selectionFired # <<>> =>
    IF selectionFired[1].current
    THEN FiredOf("selectionChanged") = 1 /\ FiredOf("multiSelectionChanged") = 1
    ELSE selectionFired[1].fired = <<>>

\* C9: provider 1 was replaced by provider 2, and then its selection changed
C9_Witness ==
  /\ data = 2
  /\ selectionFired # <<>>
  /\ selectionFired[1].provider = 1
  /\ ~selectionFired[1].current
  /\ selectionFired[1].fired = <<>>

(***************************************************************************)
(* C10: after every filter and criterion change, getOrder() holds exactly  *)
(* the row indices that pass every filter, each once, sorted by the        *)
(* criterion (negated for descending) with ties in data order; without a   *)
(* criterion the rows are in data order.                                   *)
(***************************************************************************)
C10_OrderFilteredSorted ==
  /\ {order[k] : k \in 1..Len(order)} = {i \in RowIndex : passes(i)}
  /\ Len(order) = Cardinality({i \in RowIndex : passes(i)})
  /\ \A j, k \in 1..Len(order) :
       j < k =>
         IF criterion = <<>> THEN order[j] < order[k]
         ELSE LET d == rows[order[j]][criterion[1].col] - rows[order[k]][criterion[1].col]
              IN /\ criterion[1].asc => d <= 0
                 /\ ~criterion[1].asc => d >= 0
                 /\ d = 0 => order[j] < order[k]

\* C10: descending by A, row 3 filtered out by B, rows 0 and 2 tie behind row 1
C10_Witness ==
  /\ criterion = <<[col |-> "A", asc |-> FALSE]>>
  /\ filters["B"] = 1
  /\ rows[3]["B"] = 0
  /\ rows[0]["A"] = 0 /\ rows[1]["A"] = 1 /\ rows[2]["A"] = 0
  /\ order = <<1, 0, 2>>

(***************************************************************************)
(* C11: toggleMySorting() twice in a row on one column.  As claimed: the   *)
(* ranking's sort direction is again the one it had before the first call, *)
(* whether or not the column was the criterion before the first call.      *)
(***************************************************************************)
C11_Original ==
  Len(toggled) = 2 /\ toggled[1].before # <<>> =>
    /\ criterion # <<>>
    /\ criterion[1].asc = toggled[1].before[1].asc

\* C11 as amended: when the column was the criterion before the first call,
\* the criterion (column and direction) is again what it was; when it was
\* not, the column is the criterion after both calls and its direction is the
\* opposite of the one the first call gave it.
C11_Amended ==
  Len(toggled) = 2 =>
    LET c == toggled[1].col
        before == toggled[1].before
    IN IF before # <<>> /\ before[1].col = c
       THEN criterion = before
       ELSE criterion = <<[col |-> c, asc |-> ~toggled[2].before[1].asc]>>

\* C11: column B, the descending criterion, was toggled twice, and the rows
\* are not in data order
C11_Witness ==
  /\ Len(toggled) = 2
  /\ toggled[1] = [col |-> "B", before |-> <<[col |-> "B", asc |-> FALSE]>>]
  /\ toggled[2].before = <<[col |-> "B", asc |-> TRUE]>>
  /\ criterion = <<[col |-> "B", asc |-> FALSE]>>
  /\ order # dataOrder

(***************************************************************************)
(* C12: flatten of the ranking.  The widths of the entries plus the        *)
(* padding between them sum to the width flatten returns; the span of      *)
(* every expanded composite starts where its first child starts, ends      *)
(* where its last child ends and is its derived width; a second flatten    *)
(* without a mutation in between gives the same output.  As claimed: for   *)
(* every column tree.                                                      *)
(***************************************************************************)
RECURSIVE SumWidths(_)
SumWidths(out) == IF out = <<>> THEN 0 ELSE Head(out).width + SumWidths(Tail(out))

PaddingBetween(out) == IF out = <<>> THEN 0 ELSE columnPadding * (Len(out) - 1)

SpanEnd(sp) == sp.offset + sp.width

LayoutAddsUp ==
  LET r == layout[1]
  IN /\ SumWidths(r.out) + PaddingBetween(r.out) = r.w
     /\ \A c \in DOMAIN r.spans :
          ~isFlat(c) /\ children[c] # <<>> =>
            LET cs == children[c]
            IN /\ r.spans[c].offset = r.spans[cs[1]].offset
               /\ SpanEnd(r.spans[c]) = SpanEnd(r.spans[cs[Len(cs)]])
               /\ \A i \in 1..(Len(cs) - 1) :
                    r.spans[cs[i + 1]].offset = SpanEnd(r.spans[cs[i]]) + columnPadding
               /\ width[c] = r.spans[c].width
     /\ flattenAll(ranking, 0, columnPadding) = r

C13_CycleRejected ==
  [][(/\ dropped' # dropped
      /\ dropped'[1].on = "multiLevel"
      /\ "ref" \in DOMAIN dropped'[1].dragged
      /\ ~dropped'[1].dragged.copy
      /\ isMultiLevelColumn(dropped'[1].dragged.ref)
      /\ dropped'[1].d # dropped'[1].dragged.ref
      /\ dropped'[1].d \in Sub(Tree, dropped'[1].dragged.ref))
     => /\ dropped'[1].ret = "false"
        /\ ranking' = ranking
        /\ children' = children]_vars

(***************************************************************************)
(* C14: after every drop each column has at most one parent (the ranking   *)
(* or a composite) and is at most once in its child list; a column moved   *)
(* by reference is in its new parent only, and a copy by reference inserts *)
(* a clone, a column other than the dragged one, which stays in the tree.  *)
(***************************************************************************)
Occurrences(s, c) == Cardinality({i \in 1..Len(s) : s[i] = c})

C14_OneParent ==
  /\ \A c \in TreeCol :
       /\ Cardinality(Parents(Tree, c)) <= 1
       /\ Occurrences(ranking, c) <= 1
       /\ \A m \in MultiLevel : Occurrences(children[m], c) <= 1
  /\ dropped # <<>> /\ "ref" \in DOMAIN dropped[1].dragged /\ dropped[1].ret = "true" =>
       IF dropped[1].dragged.copy
       THEN /\ dropped[1].col # dropped[1].dragged.ref
            /\ Cardinality(Parents(Tree, dropped[1].dragged.ref)) = 1
            /\ Cardinality(Parents(Tree, dropped[1].col)) = 1
       ELSE /\ dropped[1].col = dropped[1].dragged.ref
            /\ Cardinality(Parents(Tree, dropped[1].col)) = 1

\* C14: stack 1 with its child 3 was copied onto the drop zone: the clone,
\* stack 2 with child 4, is behind it in the ranking
C14_Witness ==
  /\ dropped # <<>>
  /\ dropped[1].on = "zone"
  /\ dropped[1].dragged = [ref |-> 1, copy |-> TRUE]
  /\ dropped[1].col = 2
  /\ ranking = <<1, 2>>
  /\ children[1] = <<3>> /\ children[2] = <<4>>

(***************************************************************************)
(* C15: sortBy(column, ascending) returns true exactly when the provider   *)
(* finds the column; it then calls sortByMe once on it, with the given     *)
(* direction or descending when none is given, and that is the criterion   *)
(* afterwards; when no column is found it returns false and the criterion  *)
(* is the one before the call.                                             *)
(***************************************************************************)
C15_SortBy ==
  [][sortedBy' # <<>> =>
       LET s == sortedBy'[1]
       IN IF s.column \in RankCol
          THEN /\ s.ret = TRUE
               /\ s.calls = <<[col |-> s.column, asc |-> (s.ascending = "true")]>>
               /\ criterion' = s.calls
          ELSE /\ s.ret = FALSE
               /\ s.calls = <<>>
               /\ criterion' = criterion]_vars

\* C15: sortBy("A", true) found column A and made it the criterion
C15_Witness ==
  /\ sortedBy # <<>>
  /\ sortedBy[1].column = "A" /\ sortedBy[1].ascending = "true"
  /\ sortedBy[1].ret = TRUE
  /\ criterion = <<[col |-> "A", asc |-> TRUE]>>
  /\ order # dataOrder

(***************************************************************************)
(* C16: deriveColors assigns a color only to the 'number' descriptors      *)
(* whose color is not yet defined: a number descriptor that has a color    *)
(* keeps it, a descriptor of another type is unchanged, and the array has  *)
(* the same descriptors in the same order.                                 *)
(***************************************************************************)
C16_OnlyUndefined ==
  derived # <<>> =>
    LET before == derived[1]
    IN /\ Len(columns) = Len(before)
       /\ \A i \in 1..Len(before) :
            /\ columns[i].type = before[i].type
            /\ IF before[i].type = "number" /\ before[i].color = "undefined"
               THEN columns[i].color # "undefined"
               ELSE columns[i].color = before[i].color

\* what the code does: every number descriptor gets the next palette color
C16_EveryNumber ==
  derived # <<>> =>
    LET before == derived[1]
        numbers(n) == Cardinality({j \in 1..n : before[j].type = "number"})
    IN /\ Len(columns) = Len(before)
       /\ \A i \in 1..Len(before) :
            /\ columns[i].type = before[i].type
            /\ IF before[i].type = "number"
               THEN columns[i].color = category10[numbers(i)]
               ELSE columns[i].color = before[i].color

C16_Overwritten ==
  /\ derived # <<>>
  /\ \E i \in 1..Len(columns) :
       /\ derived[1][i] = [type |-> "number", color |-> "red"]
       /\ columns[i].color = "#1f77b4"

(***************************************************************************)
(* C17: for each selection change of the provider with the data indices I  *)
(* LineUp fires selectionChanged with the first element of I, or -1 when I *)
(* is empty, and after it multiSelectionChanged with the whole list I.     *)
(***************************************************************************)
C17_SelectionThenMulti ==
  (selectionFired # <<>> /\ selectionFired[1].current) =>
    LET I == selectionFired[1].indices
        fired == selectionFired[1].fired
    IN /\ Len(fired) = 2
       /\ fired[1].type = "selectionChanged"
       /\ fired[1].arg = (IF I = <<>> THEN <<-1>> ELSE <<Head(I)>>)
       /\ fired[2].type = "multiSelectionChanged"
       /\ fired[2].arg = I

C17_Witness ==
  /\ selectionFired # <<>>
  /\ selectionFired[1].current
  /\ selectionFired[1].indices = <<1, 0>>
  /\ selectionFired[1].fired[1] = [type |-> "selectionChanged", arg |-> <<1>>]
  /\ selectionFired[1].fired[2] = [type |-> "multiSelectionChanged", arg |-> <<1, 0>>]

C17_WitnessEmpty ==
  /\ selectionFired # <<>>
  /\ selectionFired[1].current
  /\ selectionFired[1].indices = <<>>
  /\ selectionFired[1].fired[1] = [type |-> "selectionChanged", arg |-> <<-1>>]

(***************************************************************************)
(* C18: for a loaded column getLabel is the configured number format       *)
(* applied to getValue when that value is a number (typeof 'number'), and  *)
(* the value converted to a string, unformatted, when it is not.           *)
(***************************************************************************)
C18_LabelOfValue ==
  (LastOp("getLabel") /\ col.loaded) =>
    LET v == last[1].value
    IN /\ v = getValue(col, last[1].row)
       /\ v.t \in {"num", "NaN"} => last[1].ret = format(col.numberFormat, v)
       /\ v = Null => last[1].ret = "null"

C18_Witness ==
  /\ LastOp("getLabel")
  /\ col.loaded
  /\ col.numberFormat = ".1f"
  /\ last[1].value = Num(1)
  /\ last[1].ret = "1.0"

C18_WitnessNull ==
  /\ LastOp("getLabel")
  /\ col.loaded
  /\ last[1].value = Null
  /\ last[1].ret = "null"

(***************************************************************************)
(* C19: while a column is not loaded getValue returns null and getLabel    *)
(* the empty string, for every row and without a call of compute; after    *)
(* setLoaded(true) on that column they return the computed or substituted  *)
(* value and its label; and what a column returns depends on its own       *)
(* loaded flag, not on the flag of another column of the same descriptor.  *)
(***************************************************************************)
ValueOf(c, row) ==
  LET v == compute(c, row) IN IF isMissing(v) THEN c.missingValue ELSE v

LabelOf(c, v) == IF typeofNumber(v) THEN format(c.numberFormat, v) ELSE toStr(v)

C19_Placeholder ==
  /\ (LastOp("getValue") /\ ~col.loaded) =>
       last[1].ret = Null /\ last[1].computes = 0
  /\ (LastOp("getLabel") /\ ~col.loaded) =>
       last[1].ret = "" /\ last[1].computes = 0
  /\ (LastOp("getValue") /\ col.loaded) =>
       last[1].ret = ValueOf(col, last[1].row)
  /\ (LastOp("getLabel") /\ col.loaded) =>
       last[1].ret = LabelOf(col, ValueOf(col, last[1].row))
  /\ LastOp("twinGet") =>
       IF twin.loaded
       THEN /\ last[1].value = ValueOf(twin, last[1].row)
            /\ last[1].ret = LabelOf(twin, last[1].value)
       ELSE last[1].value = Null /\ last[1].ret = ""

\* col was loaded by setLoaded(true), the other column still gives the placeholder
C19_Witness ==
  /\ LastOp("twinGet")
  /\ col.loaded
  /\ ~twin.loaded
  /\ col.kind = "derived"
  /\ last[1].row = Num(1)
  /\ last[1].value = Null
  /\ last[1].ret = ""

C19_WitnessLoaded ==
  /\ LastOp("getLabel")
  /\ col.loaded
  /\ ~twin.loaded
  /\ last[1].value = Num(1)
  /\ last[1].ret = "1.00"

C19_WitnessNotLoaded ==
  /\ LastOp("getLabel")
  /\ ~col.loaded
  /\ twin.loaded
  /\ col.kind = "derived"
  /\ last[1].row = Num(1)
  /\ last[1].ret = ""

(***************************************************************************)
(* C20: restore(dump, factory) sets the extras (the missing-value          *)
(* substitute, the number format) before a child is restored through the   *)
(* factory: at each call of the factory, the first included, the column    *)
(* has the restored extras; and a dump without missingValue or without     *)
(* numberFormat leaves that setting of the column as it was.               *)
(***************************************************************************)
C20_ExtrasFirst ==
  [][(last' # <<>> /\ last'[1].op = "restore") =>
       LET d == last'[1].dump
           calls == last'[1].calls
       IN /\ Len(calls) = Len(d.children)
          /\ \A i \in 1..Len(calls) :
               /\ calls[i].child = d.children[i]
               /\ calls[i].parent.missingValue = col'.missingValue
               /\ calls[i].parent.numberFormat = col'.numberFormat
          /\ IF "missingValue" \in DOMAIN d
             THEN col'.missingValue = d.missingValue
             ELSE col'.missingValue = col.missingValue
          /\ IF "numberFormat" \in DOMAIN d
             THEN col'.numberFormat = d.numberFormat
             ELSE col'.numberFormat = col.numberFormat]_vars

C20_Witness ==
  /\ LastOp("restore")
  /\ col.desc.numberFormat = ""
  /\ col.desc.missingValue = Undefined
  /\ "missingValue" \in DOMAIN last[1].dump
  /\ "numberFormat" \in DOMAIN last[1].dump
  /\ last[1].dump.children = <<"a">>
  /\ last[1].calls[1].parent = [missingValue |-> Num(1), numberFormat |-> ".1f"]
  /\ col.children = <<"a">>

C20_WitnessAbsent ==
  /\ LastOp("restore")
  /\ DOMAIN last[1].dump = {"desc", "children"}
  /\ last[1].dump.children = <<"a">>
  /\ last[1].calls[1].parent = [missingValue |-> Num(1), numberFormat |-> "d"]

(***************************************************************************)
(* C21: for the first update() updateFinished is fired at the third        *)
(* renderFinished event after the call, not at the first or the second;    *)
(* for every later update() it is fired at the first renderFinished event  *)
(* received after that call.                                               *)
(***************************************************************************)
StartOf(call) == CHOOSE i \in 1..Len(events) : events[i] = [e |-> "updateStart", call |-> call]

\* the positions of the renderFinished events received after update() number call
RenderFinishedAfter(call) ==
  {j \in StartOf(call)..Len(events) : events[j].e = "renderFinished"}

WaitOf(call) == IF call = 1 THEN FirstRenderEvents ELSE LaterRenderEvents

\* the position of the n-th renderFinished event after update() number call
NthAfter(call, n) ==
  CHOOSE j \in RenderFinishedAfter(call) :
    Cardinality({k \in RenderFinishedAfter(call) : k <= j}) = n

C21_FinishedAtNth ==
  \A call \in 1..updateCalls :
    /\ \A i \in 1..Len(events) :
         events[i] = [e |-> "updateFinished", call |-> call] =>
           /\ Cardinality(RenderFinishedAfter(call)) >= WaitOf(call)
           /\ i = NthAfter(call, WaitOf(call)) + 1
    /\ Cardinality(RenderFinishedAfter(call)) >= WaitOf(call) =>
         events[NthAfter(call, WaitOf(call)) + 1] = [e |-> "updateFinished", call |-> call]

\* what holds also of update() calls that overlap: when updateFinished is fired
\* for a call, it is at the third, respectively the first, renderFinished after it
C21_WhenFired ==
  \A call \in 1..updateCalls :
    \A i \in 1..Len(events) :
      events[i] = [e |-> "updateFinished", call |-> call] =>
        /\ Cardinality(RenderFinishedAfter(call)) >= WaitOf(call)
        /\ i = NthAfter(call, WaitOf(call)) + 1

\* update() alone: the three renderFinished events, then updateFinished
C21_FirstAlone ==
  /\ updateCalls = 1
  /\ Len(events) = 6
  /\ events[6] = [e |-> "updateFinished", call |-> 1]
  /\ events[5].e = "renderFinished"

(***************************************************************************)
(* C22: a click on the Hide button of a rank column removes the whole      *)
(* ranking it belongs to and pushes a new ranking if none is left; a click *)
(* on the Hide button of another column removes only that column; so the   *)
(* provider, which starts with a ranking, always holds at least one.       *)
(***************************************************************************)
C22_AlwaysARanking ==
  [][hidden' # <<>> =>
       LET r == hidden'[1].ranking
           j == hidden'[1].column
       IN /\ Len(rankings') >= 1
          /\ IF rankings[r][j] = "rank"
             THEN IF Len(rankings) = 1
                  THEN rankings' = <<<<"rank">>>>
                  ELSE /\ Len(rankings') = Len(rankings) - 1
                       /\ \A k \in 1..Len(rankings') :
                            rankings'[k] = rankings[IF k < r THEN k ELSE k + 1]
             ELSE /\ Len(rankings') = Len(rankings)
                  /\ \A k \in 1..Len(rankings) :
                       rankings'[k] = IF k = r THEN RemoveAt(rankings[r], j)
                                      ELSE rankings[k]]_vars

\* the only ranking was removed by the click on its rank column, and one was pushed
C22_Witness ==
  /\ hidden = <<[ranking |-> 1, column |-> 3]>>
  /\ rankings = <<<<"rank">>>>

(***************************************************************************)
(* C23: one click on a column header toggles the sorting of the column     *)
(* once: a click on the label calls toggleMySorting once and the event     *)
(* bubbling to the header does not call it again, a click on the header    *)
(* itself calls it once; with the option manipulative off or the default   *)
(* of the event prevented no click changes the sort criterion.             *)
(***************************************************************************)
C23_ToggledOnce ==
  [][clicked' # <<>> =>
       LET c == clicked'[1].col
           ev == clicked'[1].ev
       IN IF ~ev.manipulative \/ ev.defaultPrevented
          THEN clicked'[1].calls = 0 /\ criterion' = criterion
          ELSE ev.target \in {"label", "header"} =>
                 /\ clicked'[1].calls = 1
                 /\ criterion' = toggleSorting(criterion, c)]_vars

\* a click on the label of the column that is the criterion flipped its direction
C23_Witness ==
  /\ clicked # <<>>
  /\ clicked[1].ev = [target |-> "label", manipulative |-> TRUE, defaultPrevented |-> FALSE]
  /\ clicked[1].col = "B"
  /\ clicked[1].calls = 1
  /\ criterion = <<[col |-> "B", asc |-> TRUE]>>
  /\ order # dataOrder

(***************************************************************************)
(* C24: a number column col (moved by reference, copied by reference or    *)
(* created from a descriptor) dropped onto the label of a top-level number *)
(* column d that is not multi-level leaves the ranking with a new stack in *)
(* the place of d whose children are [d, col], d no longer a direct child  *)
(* of the ranking and the other top-level columns in their previous order; *)
(* for every col, col being d itself or a column left of d included.       *)
(***************************************************************************)
NumberDrop == dropped' # <<>> /\ dropped'[1].on = "number" /\ dropped'[1].n = DropCount + 1

\* the ranking without col and with the stack in the place of d
StackInPlace(d, found, stack) ==
  LET rest == Without(ranking, found)
  IN [i \in 1..Len(rest) |-> IF rest[i] = d THEN stack ELSE rest[i]]

StackedAt(d, found) ==
  /\ dropped'[1].ret = "true"
  /\ d \notin Range(ranking')
  /\ \E stack \in MultiLevel \ Range(ranking) :
       /\ children'[stack] = <<d, found>>
       /\ ranking' = StackInPlace(d, found, stack)

C24_StackOfTwo ==
  [][NumberDrop => StackedAt(dropped'[1].d, dropped'[1].col)]_vars

\* the same for every dragged column but d itself moved by reference
C24_OtherColumn ==
  [][(NumberDrop /\ dropped'[1].col # dropped'[1].d)
       => StackedAt(dropped'[1].d, dropped'[1].col)]_vars

\* column 4 moved onto the label of column 3 to its left: ranking [5, 3, 4]
\* becomes [5, stack [3, 4]]
C24_MovedFromTheRight ==
  /\ dropped # <<>>
  /\ dropped[1].on = "number"
  /\ dropped[1].dragged = [ref |-> 4, copy |-> FALSE]
  /\ dropped[1].d = 3
  /\ \E stack \in MultiLevel : children[stack] = <<3, 4>> /\ stack \in Range(ranking)

\* column 3 was dropped on its own label: it is gone and the handler threw
C24_OnItself ==
  /\ dropped # <<>>
  /\ dropped[1].on = "number"
  /\ dropped[1].dragged = [ref |-> 3, copy |-> FALSE]
  /\ dropped[1].d = 3
  /\ dropped[1].ret = "throws"
  /\ ~Attached(3)

(***************************************************************************)
(* C25: update() lays the rankings out left to right: ranking i is         *)
(* flattened from the sum of the flatten widths of the rankings before it  *)
(* plus i times slopeWidth, its button offset is that start plus its own   *)
(* flatten width, and the width of the drop zone is the sum of all flatten *)
(* widths plus slopeWidth times the number of rankings less one; that      *)
(* width is never negative, also with no ranking.                          *)
(***************************************************************************)
RECURSIVE SumOf(_)
SumOf(ws) == IF ws = <<>> THEN 0 ELSE Head(ws) + SumOf(Tail(ws))

LaidOut(l) ==
  /\ Len(l.starts) = Len(flatWidths)
  /\ Len(l.rankingOffsets) = Len(flatWidths)
  /\ \A i \in 1..Len(flatWidths) :
       /\ l.starts[i] = SumOf(SubSeq(flatWidths, 1, i - 1)) + (i - 1) * slopeWidth
       /\ l.rankingOffsets[i] = l.starts[i] + flatWidths[i]
  /\ l.dropWidth = SumOf(flatWidths) + slopeWidth * (Len(flatWidths) - 1)

C25_LaidOutNotNegative ==
  headerLayout # <<>> => LaidOut(headerLayout[1]) /\ headerLayout[1].dropWidth >= 0

\* the sums alone
C25_LaidOut == headerLayout # <<>> => LaidOut(headerLayout[1])

\* the drop zone is never narrower than nothing when there is a ranking
C25_NotNegativeWithRanking ==
  (headerLayout # <<>> /\ Len(flatWidths) >= 1) => headerLayout[1].dropWidth >= 0

C25_TwoRankings ==
  /\ headerLayout # <<>>
  /\ flatWidths = <<100, 215>>
  /\ headerLayout[1] = [starts |-> <<0, 250>>, rankingOffsets |-> <<100, 465>>,
                        dropWidth |-> 465]

C25_NoRanking ==
  /\ headerLayout # <<>>
  /\ flatWidths = <<>>
  /\ headerLayout[1].dropWidth = -150

(***************************************************************************)
(* C26: countMultiLevel(c) is at least 1 for every column c, an expanded,  *)
(* uncompressed multi-level column without children included, and the      *)
(* number of header levels update() computes is at least 1, also when no   *)
(* column is displayed.                                                    *)
(***************************************************************************)
C26_AtLeastOneLevel ==
  /\ \A c \in TreeCol : countMultiLevel(c) >= 1
  /\ levels # 0 => levels >= 1

\* what holds: a column that is not an expanded composite without children, and
\* has none below it, counts at least 1
C26_WithChildren ==
  \A c \in TreeCol :
    (\A m \in Sub(Tree, c) \cap MultiLevel :
       collapsed[m] \/ compressed[m] \/ children[m] # <<>>)
      => countMultiLevel(c) >= 1

\* an expanded stack without children in the ranking, after update()
C26_EmptyStack ==
  /\ 1 \in Range(ranking)
  /\ children[1] = <<>> /\ ~collapsed[1] /\ ~compressed[1]
  /\ countMultiLevel(1) = NegInfinity
  /\ levels # 0

\* update() with no column displayed
C26_NoColumn == ranking = <<>> /\ levels = NegInfinity

(***************************************************************************)
(* C27: in every reachable state of a LineUp instance the rendering option *)
(* histograms being true implies that summary is true: the constructor     *)
(* establishes it and every changeRenderingOption(option, value) keeps it. *)
(***************************************************************************)
C27_HistogramsImpliesSummary ==
  renderingOptions["histograms"] => renderingOptions["summary"]

\* the constructor establishes it
C27_Constructed ==
  changed = <<>> => (renderingOptions["histograms"] => renderingOptions["summary"])

\* changeRenderingOption changes the named option only and forwards to the
\* renderer only for animation and stacked
C27_OnlyTheNamedOption ==
  [][changed' # <<>> =>
       LET c == changed'[1]
       IN /\ renderingOptions'[c.option] = c.value
          /\ \A o \in RenderingOption \ {c.option} :
               renderingOptions'[o] = renderingOptions[o]
          /\ c.forwarded = IF c.option \in {"animation", "stacked"}
                           THEN <<[option |-> c.option, value |-> c.value]>>
                           ELSE <<>>]_vars

\* changeRenderingOption('histograms', true) on the default options
C27_HistogramsAlone ==
  /\ changed = <<[option |-> "histograms", value |-> TRUE, forwarded |-> <<>>]>>
  /\ renderingOptions["histograms"]
  /\ ~renderingOptions["summary"]

(***************************************************************************)
(* C28: jumpToNearest(dataIndices) does nothing when dataIndices is empty  *)
(* or the provider has no ranking; otherwise it scrolls to the smallest    *)
(* position p a given data index has in the current order of the first     *)
(* ranking, and 0 <= p < order.length, also when a given index is filtered *)
(* out of the order.                                                       *)
(***************************************************************************)
PositionsOf(dataIndices) ==
  {k - 1 : k \in {j \in 1..Len(order) : \E i \in 1..Len(dataIndices) : order[j] = dataIndices[i]}}

C28_ScrollsIntoOrder ==
  jumped # <<>> =>
    LET j == jumped[1]
    IN IF j.dataIndices = <<>> \/ ~j.hasRanking
       THEN j.scrolled = <<>>
       ELSE /\ Len(j.scrolled) = 1
            /\ j.scrolled[1].length = Len(order)
            /\ j.scrolled[1].index >= 0
            /\ j.scrolled[1].index < Len(order)
            /\ j.scrolled[1].index \in PositionsOf(j.dataIndices)
            /\ \A p \in PositionsOf(j.dataIndices) : j.scrolled[1].index <= p

\* the same when every given data index is in the order
C28_AllInOrder ==
  (jumped # <<>> /\ \A i \in 1..Len(jumped[1].dataIndices) :
                      \E k \in 1..Len(order) : order[k] = jumped[1].dataIndices[i]) =>
    LET j == jumped[1]
    IN IF j.dataIndices = <<>> \/ ~j.hasRanking
       THEN j.scrolled = <<>>
       ELSE /\ Len(j.scrolled) = 1
            /\ j.scrolled[1].length = Len(order)
            /\ j.scrolled[1].index \in PositionsOf(j.dataIndices)
            /\ \A p \in PositionsOf(j.dataIndices) : j.scrolled[1].index <= p

\* rows 1 and 3 of a sorted order in which row 3 comes first: the position of row 3
C28_Nearest ==
  /\ jumped # <<>>
  /\ jumped[1].dataIndices = <<1, 3>>
  /\ Len(order) = NRankRows
  /\ 0 < indexOf(order, 3) /\ indexOf(order, 3) < indexOf(order, 1)
  /\ jumped[1].scrolled = <<[length |-> NRankRows, index |-> indexOf(order, 3)]>>

\* row 0 is filtered out: scrollIntoView is called with -1
C28_FilteredOut ==
  /\ jumped # <<>>
  /\ jumped[1].dataIndices = <<1, 0>>
  /\ 0 \notin Range(order) /\ 1 \in Range(order)
  /\ jumped[1].scrolled # <<>>
  /\ jumped[1].scrolled[1].index = -1

(***************************************************************************)
(* C29: a drop by reference of an id that data.find does not know changes  *)
(* no ranking and no composite and reports failure, on the handle or the   *)
(* drop zone, on the label of a multi-level column and on the label of a   *)
(* number column.                                                          *)
(***************************************************************************)
UnknownDrop ==
  /\ dropped' # dropped
  /\ dropped'[1].col = 0

\* C29: an unknown id leaves the ranking and the composites as they are, and
\* the handler does not return true
C29_UnknownChangesNothing ==
  [][UnknownDrop =>
       /\ ranking' = ranking
       /\ children' = children
       /\ dropped'[1].ret # "true"]_vars

\* on the handle, the drop zone and the label of a multi-level column nothing
\* changes and the handler throws or returns false
C29_HandleAndMultiLevel ==
  [][UnknownDrop /\ dropped'[1].on # "number" =>
       /\ ranking' = ranking
       /\ children' = children
       /\ dropped'[1].ret \in {"throws", "false"}]_vars

\* on the label of a number column the ranking never stays as it is unless
\* data.clone threw
C29_NumberLabel ==
  [][UnknownDrop /\ dropped'[1].on = "number" =>
       \/ ranking' # ranking
       \/ dropped'[1].dragged.copy /\ dropped'[1].ret = "throws" /\ children' = children]_vars

\* the unknown column 4 was moved onto the label of column 3: column 3 is
\* now alone in a new stack of the ranking, and the handler returned true
C29_StackOfOne ==
  /\ dropped # <<>>
  /\ dropped[1].on = "number"
  /\ dropped[1].dragged = [ref |-> 4, copy |-> FALSE]
  /\ dropped[1].col = 0
  /\ dropped[1].ret = "true"
  /\ \E stack \in MultiLevel : children[stack] = <<3>> /\ stack \in Range(ranking)

\* the unknown column 4 was moved onto a handle: the handler threw
C29_HandleThrew ==
  /\ dropped # <<>>
  /\ dropped[1].on = "handle"
  /\ dropped[1].dragged = [ref |-> 4, copy |-> FALSE]
  /\ dropped[1].ret = "throws"

====
